---- MODULE Spec2Model ----
(***************************************************************************)
(* pymanda: the semi-parametric discrete-choice estimator DiscreteChoice   *)
(* (fit, predict, diversion, wtp_change, upp) of src/pymanda/choices.py,   *)
(* driven by a caller that holds one ChoiceData, one estimator and the     *)
(* tables the calls return.                                                *)
(*                                                                         *)
(* Numbers.  Weights are positive integers; a share or probability is the  *)
(* exact fraction [n, d] in lowest terms, so floating rounding is left out *)
(* ("sums to 1" is exact here, "within tolerance" in the program).  The    *)
(* float NaN (0/0, or the null of an unmatched left merge) is [n |-> 0,    *)
(* d |-> 0].  estimate_psa compares a float with 1 exactly, so its shares  *)
(* are float64 numbers, digit by digit, with the rounding of IEEE 754.     *)
(*                                                                         *)
(* Specifications.  SpecFit: one weighted ChoiceData out of FitData, with  *)
(* fit(cd) and predict(cd) on it.  Spec: sessions of all five calls over   *)
(* the small unweighted frames of SessionData, the caller turning to       *)
(* another ChoiceData between calls.  SpecCalc: restrict_data, fit,        *)
(* predict, diversion, wtp_change and upp over the weighted frames of      *)
(* CalcData, with the values the calculators return.  SpecNew: the two     *)
(* constructors called with arguments of every kind.  SpecPsa:             *)
(* estimate_psa over the frames of PsaData, two corporations and three     *)
(* geographies.  SpecShares: restrict_data, calculate_shares,              *)
(* calculate_hhi and hhi_change over the frames of ShareData.  SpecRounds: *)
(* fit(cd) over FitData, one round of its grouping loop per step.          *)
(***************************************************************************)
EXTENDS Integers, Sequences, FiniteSets, TLC

VARIABLES cd,            \* the caller's ChoiceData
          dc,            \* the DiscreteChoice instance
          X_fit,         \* fit's frame X (in SpecRounds also between its rounds), while cd is the ChoiceData it was fitted on
          pred_group,    \* predict's column X['group'], while cd is the ChoiceData it was predicted on
          pred_ret,      \* the table that predict returned, until the next fit call or ChoiceData
          choice_probs,  \* the prediction table the caller holds
          div_shares,    \* the diversion table the caller holds
          last,          \* the last call: its name, the exception it raised ("" when it returned), what it returned
          fit_calls      \* history: whether some fit call on dc raised, whether some returned

vars == <<cd, dc, X_fit, pred_group, pred_ret, choice_probs, div_shares, last, fit_calls>>

---------------------------------------------------------------------------
(* Bounds of the model *)

\* the most rows of a frame of FitData
MaxRows == 3
\* the largest min_bin of an estimator
MaxMinBin == 3

---------------------------------------------------------------------------
(* Values of a DataFrame cell.  A covariate value keeps its Python type:   *)
(* groupby and merge compare values (1 and '1' are different groups),      *)
(* astype(str) keeps only the text.                                        *)

IntV(s) == [ty |-> "int", s |-> s]
StrV(s) == [ty |-> "str", s |-> s]
NaN == [ty |-> "float", s |-> "nan"]

astype_str(v) == v.s

\* '\b', the separator of '\b'.join
Sep == "|"

---------------------------------------------------------------------------
(* Exact fractions *)

RECURSIVE GCD(_, _)
GCD(a, b) == IF b = 0 THEN a ELSE GCD(b, a % b)

NaNF == [n |-> 0, d |-> 0]
InfF == [n |-> 1, d |-> 0]
ZeroF == [n |-> 0, d |-> 1]
OneF == [n |-> 1, d |-> 1]

\* n / d of two non-negative numbers, as numpy divides floats
Frac(n, d) ==
    IF d = 0 THEN (IF n = 0 THEN NaNF ELSE InfF)
    ELSE LET g == GCD(n, d) IN [n |-> n \div g, d |-> d \div g]

IsNaNF(f) == f = NaNF

\* a + b with NaN skipped (pandas sum, skipna=True); no infinities reach it
AddF(a, b) ==
    IF IsNaNF(a) THEN b
    ELSE IF IsNaNF(b) THEN a
    ELSE Frac(a.n * b.d + b.n * a.d, a.d * b.d)

\* a / b of two floats
DivF(a, b) ==
    IF IsNaNF(a) \/ IsNaNF(b) THEN NaNF
    ELSE IF b.n = 0 THEN (IF a.n = 0 THEN NaNF ELSE InfF)
    ELSE Frac(a.n * b.d, a.d * b.n)

\* a * w for an integer weight w
MulF(a, w) == IF IsNaNF(a) THEN NaNF ELSE Frac(a.n * w, a.d)

RECURSIVE SumF(_, _)
\* sum of f[c] over c in S, NaN skipped, 0 for an empty or all-NaN S
SumF(f, S) ==
    IF S = {} THEN ZeroF
    ELSE LET c == CHOOSE c \in S : TRUE IN AddF(f[c], SumF(f, S \ {c}))

\* a * b of two floats that are not infinite
MulFF(a, b) ==
    IF IsNaNF(a) \/ IsNaNF(b) THEN NaNF ELSE Frac(a.n * b.n, a.d * b.d)

RECURSIVE PowF(_, _)
\* a ** w for a natural number w
PowF(a, w) == IF w = 0 THEN OneF ELSE MulFF(a, PowF(a, w - 1))

---------------------------------------------------------------------------
(* DiscreteChoice.fit: the grouping rounds *)

\* the columns of fit's X that follow the coef_order columns in every round:
\* choice, wght, grouped, group
TrailingCols == 4

RECURSIVE JoinKey(_, _)
\* X[cols].astype(str).agg('\b'.join, axis=1) for one row
JoinKey(r, cols) ==
    IF Len(cols) = 0 THEN ""
    ELSE IF Len(cols) = 1 THEN astype_str(r.x[cols[1]])
    ELSE JoinKey(r, SubSeq(cols, 1, Len(cols) - 1)) \o Sep \o astype_str(r.x[cols[Len(cols)]])

\* the rounds taken from the shortest prefix to the longest
BinByCols_ShortestFirst(coef_order, i) == SubSeq(coef_order, 1, i - TrailingCols + 1)

\* X.columns[0:-i] in the round with loop index i
BinByCols(coef_order, i) == SubSeq(coef_order, 1, Len(coef_order) + TrailingCols - i)

SameBin(r1, r2, cols) == \A k \in 1..Len(cols) : r1.x[cols[k]] = r2.x[cols[k]]

HasNa(r, cols) == \E k \in 1..Len(cols) : r.x[cols[k]] = NaN

\* the rows groupby keeps, out of all the rows of X
ScreenRows_AllRows(X, cols) == {i \in 1..Len(X) : ~HasNa(X[i], cols)}

\* the rows of X[~X['grouped']] that groupby keeps (it drops NaN keys)
ScreenRows(X, cols) == {i \in 1..Len(X) : ~X[i].grouped /\ ~HasNa(X[i], cols)}

RECURSIVE SumWght(_, _)
SumWght(X, S) ==
    IF S = {} THEN 0
    ELSE LET i == CHOOSE i \in S : TRUE IN X[i].wght + SumWght(X, S \ {i})

\* X['sum'] of row r after the left merge with screen and fillna(True)
MergedSum(X, cols, r, min_bin) ==
    LET grp == {i \in ScreenRows(X, cols) : SameBin(X[i], r, cols)}
    IN  IF grp = {} THEN TRUE ELSE SumWght(X, grp) >= min_bin

\* one pass of the loop body
GroupRound(X, cols, min_bin) ==
    [i \in 1..Len(X) |->
        LET r == X[i]
            s == MergedSum(X, cols, r, min_bin)
        IN  [r EXCEPT !.group = IF ~r.grouped /\ s THEN JoinKey(r, cols) ELSE r.group,
                      !.grouped = r.grouped \/ s]]

RECURSIVE GroupRounds(_, _, _, _)
\* for i in range(4, len(self.coef_order)+4)
GroupRounds(X, coef_order, min_bin, i) ==
    IF i >= Len(coef_order) + TrailingCols THEN X
    ELSE GroupRounds(GroupRound(X, BinByCols(coef_order, i), min_bin), coef_order, min_bin, i + 1)

\* fit without its relabelling of the rows no round grouped
GroupUngroupables_NoRelabel(X) == X

\* X.loc[X['group']=="",'group'] = "ungrouped"
GroupUngroupables(X) ==
    [i \in 1..Len(X) |-> IF X[i].group = "" THEN [X[i] EXCEPT !.group = "ungrouped"] ELSE X[i]]

\* the column of cd.data that holds the choice fit uses
ChoiceCol(c, use_corp) == IF use_corp THEN c.corp_var ELSE c.choice_var

\* X = cd.data[coef_order + [choice]] with wght, grouped and group added
FitFrame(c, use_corp) ==
    [i \in 1..Len(c.data) |->
        [x |-> c.data[i].x,
         choice |-> c.data[i][ChoiceCol(c, use_corp)],
         wght |-> IF c.wght_var # "None" THEN c.data[i].wght ELSE 1,
         grouped |-> FALSE,
         group |-> ""]]

\* X after the loop and the relabelling of the rows no round grouped
Grouped(c, coef_order, min_bin, use_corp) ==
    GroupUngroupables(GroupRounds(FitFrame(c, use_corp), coef_order, min_bin, TrailingCols))

---------------------------------------------------------------------------
(* DiscreteChoice.fit: from observations to the cell table *)

NoTable == [columns |-> {}, cells |-> [g \in {} |-> 0]]

\* pivot_table(index='group', columns=choice, aggfunc='sum', fill_value=0),
\* then every column divided by the row sum
CellTable(X) ==
    LET groups == {X[i].group : i \in 1..Len(X)}
        cols == {X[i].choice : i \in 1..Len(X)}
        cell(g, c) == SumWght(X, {i \in 1..Len(X) : X[i].group = g /\ X[i].choice = c})
        rowsum(g) == SumWght(X, {i \in 1..Len(X) : X[i].group = g})
    IN  [columns |-> cols,
         cells |-> [g \in groups |-> [c \in cols |-> Frac(cell(g, c), rowsum(g))]]]

---------------------------------------------------------------------------
(* DiscreteChoice.predict *)

RECURSIVE MatchGroup_ShortestFirst(_, _, _, _, _)
\* the loop over n with the prefixes tried from the shortest to the longest
MatchGroup_ShortestFirst(r, coef_order, keys, n, group) ==
    IF n >= Len(coef_order) THEN group
    ELSE LET g == JoinKey(r, SubSeq(coef_order, 1, n + 1))
         IN  MatchGroup_ShortestFirst(r, coef_order, keys, n + 1,
                                      IF g \in keys /\ group = "" THEN g ELSE group)

RECURSIVE MatchGroup(_, _, _, _, _)
\* the loop over n: the group of one row after prefixes of length k, k-1, ..., 1
MatchGroup(r, coef_order, keys, n, group) ==
    IF n >= Len(coef_order) THEN group
    ELSE LET g == JoinKey(r, SubSeq(coef_order, 1, Len(coef_order) - n))
         IN  MatchGroup(r, coef_order, keys, n + 1,
                        IF g \in keys /\ group = "" THEN g ELSE group)

\* X['group'] of predict, "ungrouped" where no prefix matched
PredictGroups(data, coef_order, coef) ==
    [i \in 1..Len(data) |->
        LET g == MatchGroup(data[i], coef_order, DOMAIN coef.cells, 0, "")
        IN  IF g = "" THEN "ungrouped" ELSE g]

\* pd.merge(X, self.coef_, how='left', on='group') without the group column
MergeCoef(groups, coef) ==
    [columns |-> coef.columns,
     rows |-> [i \in 1..Len(groups) |->
                 IF groups[i] \in DOMAIN coef.cells THEN coef.cells[groups[i]]
                 ELSE [c \in coef.columns |-> NaNF]]]


---------------------------------------------------------------------------
(* DiscreteChoice.diversion *)

\* the value pandas leaves where an index label has no partner
NoChoice == "nan"

\* choice_probs[name] = cd.data[col]: assignment of a Series aligns on the
\* index; the prediction table carries the RangeIndex 0..m-1 of pd.merge
AlignedCol(c, m, col, missing) ==
    [i \in 1..m |->
        IF \E j \in 1..Len(c.data) : c.index[j] = i - 1
        THEN c.data[CHOOSE j \in 1..Len(c.data) : c.index[j] = i - 1][col]
        ELSE missing]

\* choice_probs after  choice_probs['choice'] = cd.data[choice]
WithChoice(tbl, c, choice) ==
    [tbl EXCEPT !.choice = AlignedCol(c, Len(tbl.rows), choice, NoChoice)]

\* choice_probs after  choice_probs['wght'] = cd.data[cd.wght_var]  (or = 1)
WithWght(tbl, c) ==
    [tbl EXCEPT !.wght = IF c.wght_var # "None"
                         THEN AlignedCol(c, Len(tbl.rows), c.wght_var, 0)
                         ELSE [i \in 1..Len(tbl.rows) |-> 1]]

\* list(choice_probs['choice'].unique())
AllChoices(tbl) == {tbl.choice[i] : i \in 1..Len(tbl.rows)}

\* cd.corp_map(): the (corp, choice) pairs of cd.data
CorpMap(c) == {<<c.data[i][c.corp_var], c.data[i][c.choice_var]>> : i \in 1..Len(c.data)}

\* the choices a diversion target stands for
DivList(c, diversion, div_choices_var) ==
    IF div_choices_var = "None" /\ c.corp_var # c.choice_var
    THEN {m[2] : m \in {m \in CorpMap(c) : m[1] = diversion}}
    ELSE {diversion}

\* the Series df of one target: per row p / rowsum * wght over the other
\* choices, summed over the target's rows, divided by its total
DivSeries(tbl, div_list) ==
    LET rows == {i \in 1..Len(tbl.rows) : tbl.choice[i] \in div_list}
        all_choice_temp == AllChoices(tbl) \ div_list
        rowsum(i) == SumF(tbl.rows[i], all_choice_temp)
        term(i, x) == MulF(DivF(tbl.rows[i][x], rowsum(i)), tbl.wght[i])
        colsum == [x \in all_choice_temp |-> SumF([i \in rows |-> term(i, x)], rows)]
        total == SumF(colsum, all_choice_temp)
    IN  [x \in all_choice_temp |-> DivF(colsum[x], total)]

\* div_shares: index all_choices, one column per target, NaN where the left
\* merge finds no entry of the target's Series
DivShares(tbl, c, div_choices, div_choices_var) ==
    [index |-> AllChoices(tbl),
     shares |-> [t \in {div_choices[k] : k \in 1..Len(div_choices)} |->
                   LET df == DivSeries(tbl, DivList(c, t, div_choices_var))
                   IN  [x \in AllChoices(tbl) |-> IF x \in DOMAIN df THEN df[x] ELSE NaNF]]]

NoShares == [index |-> {}, shares |-> [t \in {} |-> 0]]

\* the exception diversion raises, "" when it returns
DiversionError(c, tbl, div_choices, div_choices_var) ==
    IF Len(div_choices) = 0 THEN "ValueError"
    ELSE IF div_choices_var # "None" /\ div_choices_var \notin c.columns THEN "KeyError"
    ELSE IF Len(tbl.rows) # Len(c.data) THEN "ValueError"
    ELSE IF \E x \in AllChoices(WithChoice(tbl, c, IF div_choices_var = "None" THEN c.choice_var
                                                     ELSE div_choices_var)) :
              x \notin tbl.columns
         THEN "KeyError"
    ELSE ""


---------------------------------------------------------------------------
(* DiscreteChoice.wtp_change and DiscreteChoice.upp *)

Range(q) == {q[k] : k \in 1..Len(q)}

\* the exception wtp_change raises for a one-transaction trans_dict, "" when it returns
WtpError(tbl, trans_list) ==
    IF Len(trans_list) < 2 THEN "ValueError"
    ELSE IF \E t \in Range(trans_list) : t \notin tbl.columns THEN "KeyError"
    ELSE ""

\* (wtp_df==1).any().any(): some member or combined probability equals 1
WtpWarns(tbl, trans_list) ==
    \E i \in 1..Len(tbl.rows) :
        \/ \E t \in Range(trans_list) : tbl.rows[i][t] = OneF
        \/ SumF(tbl.rows[i], Range(trans_list)) = OneF

\* 1 - p as np.log receives it; np.log of a negative number is NaN
OneMinus(p) ==
    IF IsNaNF(p) \/ p.n > p.d THEN NaNF ELSE Frac(p.d - p.n, p.d)

\* The aggregate  (-1 * np.log(1 - col) * wght).sum()  of one column is kept as
\* the number whose -ln it is: a term w * -ln(a) is -ln(a ** w), a sum of such
\* terms is -ln of the product.  NaN terms are skipped by sum (a missing
\* weight, written 0 here, makes the term NaN: its factor is 1).  The
\* aggregate is infinite exactly when the number is 0.
RECURSIVE LogArg(_, _, _)
LogArg(p, wght, n) ==
    IF n = 0 THEN OneF
    ELSE LET a == OneMinus(p[n])
             rest == LogArg(p, wght, n - 1)
         IN  IF IsNaNF(a) THEN rest ELSE MulFF(PowF(a, wght[n]), rest)

RECURSIVE ProdF(_, _)
\* product of f[c] over c in S
ProdF(f, S) ==
    IF S = {} THEN OneF
    ELSE LET c == CHOOSE c \in S : TRUE IN MulFF(f[c], ProdF(f, S \ {c}))

\* wtp_df['wght'] = cd.data[cd.wght_var]: aligned on the index, as in diversion
WtpWght(tbl, c) ==
    IF c.wght_var # "None"
    THEN AlignedCol(c, Len(tbl.rows), c.wght_var, 0)
    ELSE [i \in 1..Len(tbl.rows) |-> 1]

\* final_output['t'] of wtp_change: the aggregate of every member column and
\* of 'combined' (as the numbers whose -ln they are), and wtp_change
\*   = (combined - sum of the members) / sum of the members
\* as the pair of numbers whose -ln are its combined and its summed aggregate
WtpFrame(tbl, c, trans_list) ==
    LET members == Range(trans_list)
        n == Len(tbl.rows)
        wght == WtpWght(tbl, c)
        col(t) == [i \in 1..n |-> tbl.rows[i][t]]
        combined == [i \in 1..n |-> SumF(tbl.rows[i], members)]
        W == [t \in members \cup {"combined"} |->
                 LogArg(IF t = "combined" THEN combined ELSE col(t), wght, n)]
    IN  [W |-> W,
         wtp_change |-> [combined |-> W["combined"], members |-> ProdF(W, members)]]

\* the exception upp raises in its checks of the two dicts, "" when it passes them
UppError(c, name1, name2) ==
    IF \E nm \in {name1, name2} : \A i \in 1..Len(c.data) : c.data[i][c.corp_var] # nm
    THEN "KeyError"
    ELSE ""

\* corp_map[...]['choice'] finds no column: corp_map has the columns
\* cd.corp_var and cd.choice_var
NoChoiceColumn(c) ==
    c.corp_var # c.choice_var /\ "choice" \notin {c.corp_var, c.choice_var}

\* list(corp_map[corp_map[cd.corp_var] == name]['choice']), or [name] when
\* corp and choice are one column
IndexKeep(c, name) ==
    IF c.corp_var = c.choice_var THEN {name}
    ELSE IF c.choice_var = "choice" THEN {m[2] : m \in {m \in CorpMap(c) : m[1] = name}}
    ELSE {m[1] : m \in {m \in CorpMap(c) : m[1] = name}}

\* div_shares[name][div_shares.index.isin(index_keep)].sum()
DivTo(shares, name, index_keep) ==
    SumF(shares.shares[name], shares.index \cap index_keep)

\* the weight or the number of the rows of corporation name
Obs(c, name) ==
    LET rows == {i \in 1..Len(c.data) : c.data[i][c.corp_var] = name}
    IN  IF c.wght_var # "None"
        THEN SumWght(c.data, rows)
        ELSE Cardinality(rows)

\* div * margin * price / own_price
UppOf(div, margin, price, own_price) ==
    DivF(MulF(MulFF(div, margin), price), Frac(own_price, 1))

\* the frame upp returns
UppFrame(c, d1, d2, shares) ==
    LET div1_to_2 == DivTo(shares, d1.name, IndexKeep(c, d2.name))
        div2_to_1 == DivTo(shares, d2.name, IndexKeep(c, d1.name))
        upp1 == UppOf(div1_to_2, d2.margin, d2.price, d1.price)
        upp2 == UppOf(div2_to_1, d1.margin, d1.price, d2.price)
        obs1 == Obs(c, d1.name)
        obs2 == Obs(c, d2.name)
    IN  [upp1 |-> upp1, upp2 |-> upp2,
         avg_upp |-> DivF(AddF(MulF(upp1, obs1), MulF(upp2, obs2)), Frac(obs1 + obs2, 1))]

---------------------------------------------------------------------------
(* The inputs of the model *)

Choices == {"A", "B", "C"}

\* the corporation column of a row: a coarsening of its choice
CorpOf(ch) == IF ch = "C" THEN "Y" ELSE "X"

Weights == {1, 2}

X2Vals == {IntV("1"), StrV("1"), NaN}

Row(v1, v2, ch, w) ==
    [x |-> [x1 |-> v1, x2 |-> v2], choice |-> ch, corp |-> CorpOf(ch), wght |-> w]

\* a fixed order of the rows, to list every frame once up to the order of its rows
Rank(r) ==
    LET k1 == IF r.x.x1 = StrV("a") THEN 0 ELSE IF r.x.x1 = StrV("b") THEN 1 ELSE 2
        k2 == IF r.x.x2 = IntV("1") THEN 0 ELSE IF r.x.x2 = StrV("1") THEN 1 ELSE 2
        k3 == IF r.choice = "A" THEN 0 ELSE IF r.choice = "B" THEN 1 ELSE 2
    IN  ((k1 * 3 + k2) * 3 + k3) * 4 + r.wght

\* the frames of 1..n rows of S, rows in the order of Rank: fit, predict and
\* diversion work row by row and through sums over rows, so the order of the
\* rows of the frame passed in is immaterial
Frames(S, n) ==
    UNION {{d \in [1..k -> S] : \A i \in 1..(k - 1) : Rank(d[i]) <= Rank(d[i + 1])} : k \in 1..n}

\* ChoiceData(data, 'choice', corp_var, wght_var=wght_var) of a frame with
\* the default RangeIndex
MkChoiceData(data, corp_var, wght_var) ==
    [data |-> data,
     index |-> [i \in 1..Len(data) |-> i - 1],
     columns |-> {"x1", "x2", "choice", "corp", "wght"},
     choice_var |-> "choice",
     corp_var |-> corp_var,
     geog_var |-> "None",
     wght_var |-> wght_var]

\* data with its choice column called 'hospital'
Renamed(data) ==
    [i \in 1..Len(data) |->
        [x |-> data[i].x, hospital |-> data[i].choice, corp |-> data[i].corp,
         wght |-> data[i].wght]]

\* ChoiceData(data, 'hospital', corp_var, wght_var=wght_var)
MkHospitalData(data, corp_var, wght_var) ==
    [data |-> Renamed(data),
     index |-> [i \in 1..Len(data) |-> i - 1],
     columns |-> {"x1", "x2", "hospital", "corp", "wght"},
     choice_var |-> "hospital",
     corp_var |-> corp_var,
     geog_var |-> "None",
     wght_var |-> wght_var]

NoProbs == [columns |-> {}, rows |-> <<>>, choice |-> <<>>, wght |-> <<>>]

\* DiscreteChoice(solver='semiparametric', coef_order=coef_order, min_bin=min_bin)
MkDiscreteChoice(coef_order, min_bin) ==
    [coef_order |-> coef_order, min_bin |-> min_bin,
     fitted |-> FALSE, coef_ |-> NoTable, used_corp |-> FALSE]

CoefOrders == {<<"x1">>, <<"x1", "x2">>, <<"x1", "x3">>}

\* check_is_fitted that never raises
check_is_fitted_Never(d) == ""

\* check_is_fitted: the exception it raises, "" when self.coef_ exists
check_is_fitted(d) == IF d.fitted THEN "" ELSE "RuntimeError"

---------------------------------------------------------------------------
(* The calls *)

\* the value of a call that returns a table the model does not keep in `last`
NoRet == [none |-> TRUE]

Returned(op) == [op |-> op, err |-> "", ret |-> NoRet]
Raised(op, err) == [op |-> op, err |-> err, ret |-> NoRet]
ReturnedValue(op, v) == [op |-> op, err |-> "", ret |-> v]

\* fit that updates the cells of self.coef_ instead of replacing the table:
\* the cells of an earlier fit that the new table does not have stay
Fit_Accumulate(use_corp) ==
    IF \E k \in 1..Len(dc.coef_order) : dc.coef_order[k] \notin cd.columns
    THEN /\ last' = Raised("fit", "KeyError")
         /\ pred_ret' = NoProbs
         /\ fit_calls' = [fit_calls EXCEPT !.raised = TRUE]
         /\ UNCHANGED <<cd, dc, X_fit, pred_group, choice_probs, div_shares>>
    ELSE LET X == Grouped(cd, dc.coef_order, dc.min_bin, use_corp)
             new == CellTable(X)
             old == dc.coef_
             kept(g) == [c \in new.columns |-> IF c \in old.columns THEN old.cells[g][c] ELSE ZeroF]
             tbl == [columns |-> new.columns,
                     cells |-> [g \in DOMAIN new.cells \cup DOMAIN old.cells |->
                                  IF g \in DOMAIN new.cells THEN new.cells[g] ELSE kept(g)]]
         IN  /\ dc' = [dc EXCEPT !.used_corp = use_corp, !.fitted = TRUE, !.coef_ = tbl]
             /\ X_fit' = X
             /\ last' = Returned("fit")
             /\ pred_ret' = NoProbs
             /\ pred_group' = <<>>
             /\ fit_calls' = [fit_calls EXCEPT !.returned = TRUE]
             /\ UNCHANGED <<cd, choice_probs, div_shares>>

\* DiscreteChoice.fit(cd, use_corp)
Fit(use_corp) ==
    IF \E k \in 1..Len(dc.coef_order) : dc.coef_order[k] \notin cd.columns
    THEN /\ last' = Raised("fit", "KeyError")
         /\ pred_ret' = NoProbs
         /\ fit_calls' = [fit_calls EXCEPT !.raised = TRUE]
         /\ UNCHANGED <<cd, dc, X_fit, pred_group, choice_probs, div_shares>>
    ELSE LET X == Grouped(cd, dc.coef_order, dc.min_bin, use_corp)
         IN  /\ dc' = [dc EXCEPT !.used_corp = use_corp, !.fitted = TRUE, !.coef_ = CellTable(X)]
             /\ X_fit' = X
             /\ last' = Returned("fit")
             /\ pred_ret' = NoProbs
             /\ pred_group' = <<>>
             /\ fit_calls' = [fit_calls EXCEPT !.returned = TRUE]
             /\ UNCHANGED <<cd, choice_probs, div_shares>>

\* predict that takes the cells it matched out of self.coef_
Predict_Consuming ==
    IF check_is_fitted(dc) # ""
    THEN /\ last' = Raised("predict", check_is_fitted(dc))
         /\ UNCHANGED <<cd, dc, X_fit, pred_group, pred_ret, choice_probs, div_shares, fit_calls>>
    ELSE IF \E k \in 1..Len(dc.coef_order) : dc.coef_order[k] \notin cd.columns
    THEN /\ last' = Raised("predict", "KeyError")
         /\ UNCHANGED <<cd, dc, X_fit, pred_group, pred_ret, choice_probs, div_shares, fit_calls>>
    ELSE LET groups == PredictGroups(cd.data, dc.coef_order, dc.coef_)
             merged == MergeCoef(groups, dc.coef_)
             tbl == [columns |-> merged.columns, rows |-> merged.rows,
                     choice |-> <<>>, wght |-> <<>>]
             left == DOMAIN dc.coef_.cells \ {groups[i] : i \in 1..Len(groups)}
         IN  /\ pred_group' = groups
             /\ pred_ret' = tbl
             /\ choice_probs' = tbl
             /\ last' = Returned("predict")
             /\ dc' = [dc EXCEPT !.coef_.cells = [g \in left |-> dc.coef_.cells[g]]]
             /\ UNCHANGED <<cd, X_fit, div_shares, fit_calls>>

\* DiscreteChoice.predict(cd); the caller keeps the table it returns
Predict ==
    IF check_is_fitted(dc) # ""
    THEN /\ last' = Raised("predict", check_is_fitted(dc))
         /\ UNCHANGED <<cd, dc, X_fit, pred_group, pred_ret, choice_probs, div_shares, fit_calls>>
    ELSE IF \E k \in 1..Len(dc.coef_order) : dc.coef_order[k] \notin cd.columns
    THEN /\ last' = Raised("predict", "KeyError")
         /\ UNCHANGED <<cd, dc, X_fit, pred_group, pred_ret, choice_probs, div_shares, fit_calls>>
    ELSE LET groups == PredictGroups(cd.data, dc.coef_order, dc.coef_)
             merged == MergeCoef(groups, dc.coef_)
             tbl == [columns |-> merged.columns, rows |-> merged.rows,
                     choice |-> <<>>, wght |-> <<>>]
         IN  /\ pred_group' = groups
             /\ pred_ret' = tbl
             /\ choice_probs' = tbl
             /\ last' = Returned("predict")
             /\ UNCHANGED <<cd, dc, X_fit, div_shares, fit_calls>>

\* the table a caller makes itself for cd: every row spreads its probability
\* evenly over the three choices
UniformTable(c) ==
    [columns |-> Choices,
     rows |-> [i \in 1..Len(c.data) |-> [ch \in Choices |-> Frac(1, 3)]],
     choice |-> <<>>, wght |-> <<>>]

\* DiscreteChoice.diversion(cd, choice_probs, div_choices, div_choices_var);
\* own: the caller passes a table of its own, else the one it holds.  The
\* columns 'choice' and 'wght' are written into the table that was passed.
Diversion(own, div_choices, div_choices_var) ==
    LET tbl == IF own THEN UniformTable(cd) ELSE choice_probs
        err == DiversionError(cd, tbl, div_choices, div_choices_var)
        choice == IF div_choices_var = "None" THEN cd.choice_var ELSE div_choices_var
        tbl1 == WithChoice(tbl, cd, choice)
        tbl2 == WithWght(tbl1, cd)
        reached_choice == Len(div_choices) # 0
                          /\ ~(div_choices_var # "None" /\ div_choices_var \notin cd.columns)
                          /\ Len(tbl.rows) = Len(cd.data)
    IN  /\ last' = Raised("diversion", err)
        /\ choice_probs' = IF own THEN choice_probs
                           ELSE IF err = "" THEN tbl2
                           ELSE IF reached_choice THEN tbl1
                           ELSE choice_probs
        /\ div_shares' = IF err = "" THEN DivShares(tbl2, cd, div_choices, div_choices_var)
                         ELSE div_shares
        /\ UNCHANGED <<cd, dc, X_fit, pred_group, pred_ret, fit_calls>>

\* DiscreteChoice.wtp_change(cd, choice_probs, {'t': trans_list})
WtpChange(trans_list) ==
    LET err == WtpError(choice_probs, trans_list)
        op == IF WtpWarns(choice_probs, trans_list) THEN "wtp_change_warned" ELSE "wtp_change"
    IN  /\ last' = IF err # "" THEN Raised("wtp_change", err)
                   ELSE ReturnedValue(op, WtpFrame(choice_probs, cd, trans_list))
        /\ UNCHANGED <<cd, dc, X_fit, pred_group, pred_ret, choice_probs, div_shares, fit_calls>>

\* the dicts of the upp calls: margins 1/4 and 1/2, prices 2 and 3
UppDict1(name) == [name |-> name, price |-> 2, margin |-> Frac(1, 4)]
UppDict2(name) == [name |-> name, price |-> 3, margin |-> Frac(1, 2)]

\* DiscreteChoice.upp(cd, UppDict1(name1), UppDict2(name2), div_shares)
Upp(name1, name2) ==
    LET err == UppError(cd, name1, name2)
        d1 == UppDict1(name1)
        d2 == UppDict2(name2)
    IN  /\ last' = IF err # "" THEN Raised("upp", err)
                   ELSE IF NoChoiceColumn(cd) THEN Raised("upp", "KeyError")
                   ELSE IF {name1, name2} \subseteq DOMAIN div_shares.shares
                        THEN ReturnedValue("upp", UppFrame(cd, d1, d2, div_shares))
                   ELSE Raised("upp", "KeyError")
        /\ UNCHANGED <<cd, dc, X_fit, pred_group, pred_ret, choice_probs, div_shares, fit_calls>>

\* cd = ChoiceData(...): the caller turns to another ChoiceData
NewChoiceData(c) ==
    /\ cd' = c
    /\ c # cd
    /\ X_fit' = <<>>
    /\ pred_group' = <<>>
    /\ pred_ret' = NoProbs
    /\ choice_probs' = NoProbs
    /\ div_shares' = NoShares
    /\ last' = Returned("ChoiceData")
    /\ UNCHANGED <<dc, fit_calls>>

RECURSIVE Positions(_, _)
\* the positions of the rows whose index label is in keep, in their order
Positions(index, keep) ==
    IF Len(index) = 0 THEN <<>>
    ELSE LET front == Positions(SubSeq(index, 1, Len(index) - 1), keep)
         IN  IF index[Len(index)] \in keep THEN Append(front, Len(index)) ELSE front

\* cd.restrict_data(restriction) with a boolean Series that is True at the
\* index labels of keep:  self.data = self.data[restriction]  keeps the rows
\* and their index labels.  The caller goes on holding the tables it has.
\* (A restriction that keeps no row is left out.)
RestrictData(keep) ==
    LET pos == Positions(cd.index, keep)
    IN  /\ Len(pos) > 0
        /\ cd' = [cd EXCEPT !.data = [k \in 1..Len(pos) |-> cd.data[pos[k]]],
                            !.index = [k \in 1..Len(pos) |-> cd.index[pos[k]]]]
        /\ X_fit' = <<>>
        /\ pred_group' = <<>>
        /\ pred_ret' = NoProbs
        /\ last' = Returned("restrict_data")
        /\ UNCHANGED <<dc, choice_probs, div_shares, fit_calls>>

\* the frames of the calls that fit and predict alone: weighted rows of two
\* choices; the first covariate a text or the empty text, the second an
\* integer, the string of the same text or missing
FitRows ==
    {Row(StrV("a"), v2, ch, w) : v2 \in X2Vals, ch \in {"A", "B"}, w \in Weights}
    \cup {Row(StrV(""), IntV("1"), ch, w) : ch \in {"A", "B"}, w \in Weights}

FitData == {MkChoiceData(d, "choice", "wght") : d \in Frames(FitRows, MaxRows)}

\* the frames of the sessions: one or two different unweighted rows out of three, two
\* choices of corporation X that share their covariates and one choice of
\* corporation Y apart from them
SessionRows ==
    {Row(StrV("a"), IntV("1"), "A", 1), Row(StrV("a"), IntV("1"), "B", 1),
     Row(StrV("b"), IntV("1"), "C", 1)}

SessionData ==
    {MkChoiceData(d, cv, "None") :
        d \in {f \in Frames(SessionRows, 2) : Len(f) = 2 => f[1] # f[2]},
        cv \in {"choice", "corp"}}

\* (own, div_choices, div_choices_var) of the diversion calls
DivArgs ==
    ({TRUE, FALSE} \X {<<"A", "C">>, <<"X", "Y">>} \X {"None"})
    \cup {<<FALSE, <<>>, "None">>, <<FALSE, <<"A">>, "zip">>}
TransLists == {<<"A">>, <<"A", "B">>, <<"A", "Z">>}
UppNames == {<<"A", "C">>, <<"X", "Y">>, <<"A", "Z">>}

Unfitted ==
    /\ X_fit = <<>>
    /\ pred_group = <<>>
    /\ pred_ret = NoProbs
    /\ choice_probs = NoProbs
    /\ div_shares = NoShares
    /\ last = Returned("init")
    /\ fit_calls = [raised |-> FALSE, returned |-> FALSE]

Init ==
    /\ cd \in SessionData
    /\ dc \in {MkDiscreteChoice(co, mb) : co \in CoefOrders, mb \in 1..MaxMinBin}
    /\ Unfitted

Calls ==
    \/ \E use_corp \in BOOLEAN : Fit(use_corp)
    \/ Predict
    \/ \E a \in DivArgs : Diversion(a[1], a[2], a[3])
    \/ \E tl \in TransLists : WtpChange(tl)
    \/ \E nm \in UppNames : Upp(nm[1], nm[2])

Next ==
    \/ Calls
    \/ \E c \in SessionData : NewChoiceData(c)

Spec == Init /\ [][Next]_vars

InitFit ==
    /\ cd \in FitData
    /\ dc \in {MkDiscreteChoice(co, mb) : co \in {<<"x1">>, <<"x1", "x2">>}, mb \in 1..MaxMinBin}
    /\ Unfitted

NextFit ==
    \/ Fit(FALSE)
    \/ Predict

SpecFit == InitFit /\ [][NextFit]_vars

---------------------------------------------------------------------------
(* fit(cd), one round of its loop at a time.  While fit is in the loop,    *)
(* X_fit is its frame X and last is [op |-> "fit_loop"] with the loop      *)
(* index i of the round to come and the bin_by_cols of the round just      *)
(* done.                                                                   *)

InLoop(i, bin_by_cols) ==
    [op |-> "fit_loop", err |-> "", ret |-> [i |-> i, bin_by_cols |-> bin_by_cols]]

\* lines 806-829: the checks and the frame X before the first round
FitBegin ==
    /\ last.op # "fit_loop"
    /\ IF \E k \in 1..Len(dc.coef_order) : dc.coef_order[k] \notin cd.columns
       THEN /\ last' = Raised("fit", "KeyError")
            /\ pred_ret' = NoProbs
            /\ fit_calls' = [fit_calls EXCEPT !.raised = TRUE]
            /\ UNCHANGED <<cd, dc, X_fit, pred_group, choice_probs, div_shares>>
       ELSE /\ X_fit' = FitFrame(cd, FALSE)
            /\ last' = InLoop(TrailingCols, <<>>)
            /\ pred_ret' = NoProbs
            /\ pred_group' = <<>>
            /\ UNCHANGED <<cd, dc, choice_probs, div_shares, fit_calls>>

\* lines 830-846: one pass of  for i in range(4, len(self.coef_order)+4)
FitRound ==
    /\ last.op = "fit_loop"
    /\ last.ret.i < Len(dc.coef_order) + TrailingCols
    /\ X_fit' = GroupRound(X_fit, BinByCols(dc.coef_order, last.ret.i), dc.min_bin)
    /\ last' = InLoop(last.ret.i + 1, BinByCols(dc.coef_order, last.ret.i))
    /\ UNCHANGED <<cd, dc, pred_group, pred_ret, choice_probs, div_shares, fit_calls>>

\* lines 848-862: the loop is over; the relabelling and the cell table
FitEnd ==
    /\ last.op = "fit_loop"
    /\ last.ret.i >= Len(dc.coef_order) + TrailingCols
    /\ X_fit' = GroupUngroupables(X_fit)
    /\ dc' = [dc EXCEPT !.used_corp = FALSE, !.fitted = TRUE,
                        !.coef_ = CellTable(GroupUngroupables(X_fit))]
    /\ last' = Returned("fit")
    /\ fit_calls' = [fit_calls EXCEPT !.returned = TRUE]
    /\ UNCHANGED <<cd, pred_group, pred_ret, choice_probs, div_shares>>

InitRounds ==
    /\ cd \in FitData
    /\ dc \in {MkDiscreteChoice(co, mb) : co \in CoefOrders, mb \in 1..MaxMinBin}
    /\ Unfitted

NextRounds ==
    \/ FitBegin
    \/ FitRound
    \/ FitEnd

SpecRounds == InitRounds /\ [][NextRounds]_vars

---------------------------------------------------------------------------
(* The constructors.  An argument is a Python value [ty, v]: its type and, *)
(* for a number, its value, for a list or a string, its items.            *)

\* the exception DiscreteChoice.__init__ raises without its check of
\* min_bin <= 0, "" when it returns
DiscreteChoiceError_NoMinBinSign(a) ==
    IF a.solver \notin {"semiparametric"} THEN "ValueError"
    ELSE IF a.copy_x.ty # "bool" THEN "ValueError"
    ELSE IF a.coef_order.ty # "list" THEN "ValueError"
    ELSE IF Len(a.coef_order.v) = 0 THEN "ValueError"
    ELSE IF a.verbose.ty # "bool" THEN "ValueError"
    ELSE IF a.min_bin.ty # "float" /\ a.min_bin.ty # "int" THEN "ValueError"
    ELSE ""

\* the exception DiscreteChoice.__init__ raises, "" when it returns
DiscreteChoiceError(a) ==
    IF a.solver \notin {"semiparametric"} THEN "ValueError"
    ELSE IF a.copy_x.ty # "bool" THEN "ValueError"
    ELSE IF a.coef_order.ty # "list" THEN "ValueError"
    ELSE IF Len(a.coef_order.v) = 0 THEN "ValueError"
    ELSE IF a.verbose.ty # "bool" THEN "ValueError"
    ELSE IF a.min_bin.ty # "float" /\ a.min_bin.ty # "int" THEN "ValueError"
    ELSE IF a.min_bin.v <= 0 THEN "ValueError"
    ELSE ""

\* the outcome of a constructor call: the exception it raised and its arguments
Constructed(op, err, a) == [op |-> op, err |-> err, ret |-> a]

\* no object: the caller has constructed none yet
NoObject == [none |-> TRUE]

\* dc = DiscreteChoice(**a), the first estimator the caller gets
ConstructDiscreteChoice(a) ==
    LET err == DiscreteChoiceError(a)
    IN  /\ dc = NoObject
        /\ dc' = IF err = "" THEN MkDiscreteChoice(a.coef_order.v, a.min_bin.v) ELSE dc
        /\ last' = Constructed("DiscreteChoice", err, a)
        /\ UNCHANGED <<cd, X_fit, pred_group, pred_ret, choice_probs, div_shares, fit_calls>>

\* corp_var = choice_var when corp_var is None
CorpVarOf(a) == IF a.corp_var = "None" THEN a.choice_var ELSE a.corp_var

\* the exception ChoiceData.__init__ raises without its check of the columns,
\* "" when it returns
ChoiceDataError_NoColumnCheck(a) ==
    IF a.data.ty # "DataFrame" THEN "TypeError"
    ELSE IF Len(a.data.rows) = 0 \/ a.data.columns = {} THEN "ValueError"
    ELSE IF a.choice_var \in a.data.columns
            /\ \E i \in 1..Len(a.data.rows) : a.data.rows[i][a.choice_var] = ""
         THEN "ValueError"
    ELSE ""

\* the exception ChoiceData.__init__ raises, "" when it returns; the loop
\* over [choice_var, corp_var] tests data[self.choice_var] == '' both times
ChoiceDataError(a) ==
    IF a.data.ty # "DataFrame" THEN "TypeError"
    ELSE IF Len(a.data.rows) = 0 \/ a.data.columns = {} THEN "ValueError"
    ELSE IF \E param \in {a.choice_var, CorpVarOf(a), a.geog_var, a.wght_var} \ {"None"} :
               param \notin a.data.columns
         THEN "KeyError"
    ELSE IF \E nonull \in {a.choice_var, CorpVarOf(a)} :
               \E i \in 1..Len(a.data.rows) : a.data.rows[i][a.choice_var] = ""
         THEN "ValueError"
    ELSE ""

\* the object ChoiceData.__init__ leaves
ChoiceDataObject(a) ==
    [data |-> a.data.rows,
     index |-> [i \in 1..Len(a.data.rows) |-> i - 1],
     columns |-> a.data.columns,
     choice_var |-> a.choice_var,
     corp_var |-> CorpVarOf(a),
     geog_var |-> a.geog_var,
     wght_var |-> a.wght_var]

\* cd = ChoiceData(**a), the first dataset the caller gets
ConstructChoiceData(a) ==
    LET err == ChoiceDataError(a)
    IN  /\ cd = NoObject
        /\ cd' = IF err = "" THEN ChoiceDataObject(a) ELSE cd
        /\ last' = Constructed("ChoiceData", err, a)
        /\ UNCHANGED <<dc, X_fit, pred_group, pred_ret, choice_probs, div_shares, fit_calls>>

\* the arguments of the DiscreteChoice calls
PyBool == [ty |-> "bool", v |-> <<>>]
PyNone == [ty |-> "NoneType", v |-> <<>>]
PyStr(chars) == [ty |-> "str", v |-> chars]
PyList(items) == [ty |-> "list", v |-> items]
PyNum(ty, n) == [ty |-> ty, v |-> n]

\* the arguments of DiscreteChoice(coef_order=coef_order): every other
\* parameter at the default of the signature
DiscreteChoiceDefaults(coef_order) ==
    [solver |-> "semiperametric",
     copy_x |-> PyBool,
     coef_order |-> coef_order,
     verbose |-> PyBool,
     min_bin |-> PyNum("int", 25)]

DiscreteChoiceArgs ==
    {DiscreteChoiceDefaults(PyList(<<"x1">>))}
    \cup
    [solver : {"semiparametric", "semiperametric", "logit"},
     copy_x : {PyBool},
     coef_order : {PyList(<<"x1">>), PyList(<<>>), PyNone, PyStr(<<"x", "1">>)},
     verbose : {PyBool},
     min_bin : {PyNum("int", 1), PyNum("int", 0), PyNum("int", -1), PyNum("float", 1),
                PyNum("float", 0), PyNum("str", 1), PyNum("bool", 1)}]
    \cup
    [solver : {"semiparametric"},
     copy_x : {PyBool, PyStr(<<"y">>)},
     coef_order : {PyList(<<"x1">>)},
     verbose : {PyBool, PyNum("int", 1)},
     min_bin : {PyNum("int", 1)}]

\* the rows of the ChoiceData calls: a choice and a corporation, either of
\* them possibly the empty string
NewRows ==
    {[x |-> [x1 |-> StrV("a"), x2 |-> IntV("1")], choice |-> ch, corp |-> co, wght |-> 1] :
        ch \in {"A", ""}, co \in {"X", ""}}

\* the data of the ChoiceData calls: a DataFrame of no row or one row, or a list
NewData ==
    {[ty |-> "DataFrame", columns |-> {"x1", "x2", "choice", "corp", "wght"}, rows |-> d] :
        d \in UNION {[1..k -> NewRows] : k \in 0..1}}
    \cup {[ty |-> "list", columns |-> {}, rows |-> <<>>]}

ChoiceDataArgs ==
    [data : NewData,
     choice_var : {"choice", "choices"},
     corp_var : {"None", "corp", "corps"},
     geog_var : {"None", "x1", "zips"},
     wght_var : {"None", "wght", "weight"}]

InitNew ==
    /\ cd = NoObject
    /\ dc = NoObject
    /\ Unfitted

NextNew ==
    \/ \E a \in ChoiceDataArgs : ConstructChoiceData(a)
    \/ \E a \in DiscreteChoiceArgs : ConstructDiscreteChoice(a)
    \/ cd # NoObject /\ dc # NoObject /\ Fit(FALSE)

SpecNew == InitNew /\ [][NextNew]_vars

---------------------------------------------------------------------------
(* float64 arithmetic of ChoiceData.estimate_psa.  A float in [0, 2) is    *)
(* the sequence of its binary digits: digit k has the weight 2^-(k-1).     *)
(* Division and addition round to the nearest float of Significand digits, *)
(* ties to even, as IEEE 754 does.                                         *)

\* the binary digits of a float64 significand
Significand == 53
\* the digits kept while rounding: enough for every share of the frames
\* (the smallest share is above 2^-6)
FixedLen == 60

ZeroBits == [k \in 1..FixedLen |-> 0]
OneBits == [k \in 1..FixedLen |-> IF k = 1 THEN 1 ELSE 0]

RECURSIVE Expand(_, _, _)
\* long division: the digits of r / d after those of acc, and the remainder
Expand(acc, r, d) ==
    IF Len(acc) = FixedLen THEN [bits |-> acc, rem |-> r]
    ELSE IF 2 * r >= d THEN Expand(Append(acc, 1), 2 * r - d, d)
    ELSE Expand(Append(acc, 0), 2 * r, d)

\* the first FixedLen digits of n / d for 0 <= n <= d, d > 0
Quotient(n, d) == IF n >= d THEN Expand(<<1>>, n - d, d) ELSE Expand(<<0>>, n, d)

RECURSIVE AddFrom(_, _, _)
\* acc holds the carry and, after it, the digits of a + b already known
\* (the last ones); the digits before them are put in front
AddFrom(a, b, acc) ==
    IF Len(acc) = FixedLen + 1 THEN Tail(acc)
    ELSE LET k == FixedLen + 1 - Len(acc)
         IN  AddFrom(a, b, <<(a[k] + b[k] + acc[1]) \div 2, (a[k] + b[k] + acc[1]) % 2>>
                              \o Tail(acc))

\* a + b exactly (a + b < 2)
AddBits(a, b) == AddFrom(a, b, <<0>>)

\* b rounded to Significand digits, ties to even; sticky: digits beyond
\* FixedLen are not all 0
RoundBits(b, sticky) ==
    IF \A k \in 1..FixedLen : b[k] = 0 THEN b
    ELSE LET lead == CHOOSE k \in 1..FixedLen : b[k] = 1 /\ \A j \in 1..(k - 1) : b[j] = 0
             low == lead + Significand - 1
             guard == b[low + 1]
             rest == sticky \/ \E k \in (low + 2)..FixedLen : b[k] = 1
             kept == [k \in 1..FixedLen |-> IF k <= low THEN b[k] ELSE 0]
             ulp == [k \in 1..FixedLen |-> IF k = low THEN 1 ELSE 0]
         IN  IF guard = 1 /\ (rest \/ b[low] = 1) THEN AddBits(kept, ulp) ELSE kept

\* the float n / d of two integers, 0 <= n <= d
FloatDiv(n, d) == LET q == Quotient(n, d) IN RoundBits(q.bits, q.rem # 0)

\* the float a + b
FloatAdd(a, b) == RoundBits(AddBits(a, b), FALSE)

\* a < b
FloatLess(a, b) ==
    \E k \in 1..FixedLen : a[k] < b[k] /\ \A j \in 1..(k - 1) : a[j] = b[j]

---------------------------------------------------------------------------
(* ChoiceData.estimate_psa *)

\* a threshold: its Python type, its value n / d, and str() of it
Threshold(ty, n, d, str) == [ty |-> ty, n |-> n, d |-> d, str |-> str]

\* the order of the corporation names
CorpRank(c) == IF c = "x" THEN 1 ELSE IF c = "y" THEN 2 ELSE 3

\* df.groupby([corp_var, geog_var]).sum(): the (corp, geog) pairs of the
\* data, each with the sum of its weights, or the number of its rows
\* without a weight column
PsaKeys(c) == {<<c.data[i][c.corp_var], c.data[i][c.geog_var]>> : i \in 1..Len(c.data)}

RECURSIVE SumCol(_, _, _)
SumCol(data, col, S) ==
    IF S = {} THEN 0
    ELSE LET i == CHOOSE i \in S : TRUE IN data[i][col] + SumCol(data, col, S \ {i})

PsaVolume(c, key) ==
    LET rows == {i \in 1..Len(c.data) :
                    c.data[i][c.corp_var] = key[1] /\ c.data[i][c.geog_var] = key[2]}
    IN  IF c.wght_var # "None" THEN SumCol(c.data, c.wght_var, rows) ELSE Cardinality(rows)

\* df['group_total']
PsaTotal(c, corp) ==
    LET rows == {i \in 1..Len(c.data) : c.data[i][c.corp_var] = corp}
    IN  IF c.wght_var # "None" THEN SumCol(c.data, c.wght_var, rows) ELSE Cardinality(rows)

\* key k comes before key j in df.sort_values([corp_var, weight],
\* ascending=False); rows that tie keep the order of the groupby
PsaBefore(c, k, j) ==
    \/ CorpRank(k[1]) > CorpRank(j[1])
    \/ /\ k[1] = j[1]
       /\ \/ PsaVolume(c, k) > PsaVolume(c, j)
          \/ PsaVolume(c, k) = PsaVolume(c, j) /\ k[2] < j[2]

RECURSIVE PsaSorted(_, _)
PsaSorted(c, K) ==
    IF K = {} THEN <<>>
    ELSE LET k == CHOOSE k \in K : \A j \in K \ {k} : PsaBefore(c, k, j)
         IN  <<k>> \o PsaSorted(c, K \ {k})

RECURSIVE PsaCumShare(_, _, _)
\* df_start['share'] of row i: the running float sum of the shares of the
\* rows of its corporation, each share added to the sum of those before it
PsaCumShare(c, rows, i) ==
    LET share == FloatDiv(PsaVolume(c, rows[i]), PsaTotal(c, rows[i][1]))
    IN  IF i > 1 /\ rows[i - 1][1] = rows[i][1]
        THEN FloatAdd(PsaCumShare(c, rows, i - 1), share)
        ELSE share

\* df['share'].shift().fillna(1).replace(1, 0) of row i
PsaShifted(c, rows, i) ==
    LET prev == IF i = 1 THEN OneBits ELSE PsaCumShare(c, rows, i - 1)
    IN  IF prev = OneBits THEN ZeroBits ELSE prev

RECURSIVE SortedList(_)
\* in_psa.sort() of a list without repetitions
SortedList(S) ==
    IF S = {} THEN <<>>
    ELSE LET m == CHOOSE m \in S : \A x \in S : m <= x
         IN  <<m>> \o SortedList(S \ {m})

\* "{cen}_{a}".format(cen=center, a=alpha)
PsaKey(center, alpha) == center \o "_" \o alpha.str

\* the exception estimate_psa raises, "" when it returns
PsaError(c, centers, threshold) ==
    IF c.geog_var = "None" THEN "KeyError"
    ELSE IF \E k \in 1..Len(centers) :
               \A i \in 1..Len(c.data) : c.data[i][c.corp_var] # centers[k]
         THEN "ValueError"
    ELSE IF \E k \in 1..Len(threshold) :
               /\ \A j \in 1..(k - 1) :
                      threshold[j].ty = "float" /\ 0 < threshold[j].n /\ threshold[j].n <= threshold[j].d
               /\ threshold[k].ty # "float"
         THEN "TypeError"
    ELSE IF \E k \in 1..Len(threshold) : ~(0 < threshold[k].n /\ threshold[k].n <= threshold[k].d)
         THEN "AttributeError"
    ELSE ""

\* output_dict
PsaDict(c, centers, threshold) ==
    LET rows == PsaSorted(c, PsaKeys(c))
        keep(i, alpha) == FloatLess(PsaShifted(c, rows, i), FloatDiv(alpha.n, alpha.d))
    IN  [key \in {PsaKey(centers[k], threshold[a]) :
                     k \in 1..Len(centers), a \in 1..Len(threshold)} |->
            LET k == CHOOSE k \in 1..Len(centers) :
                        \E a \in 1..Len(threshold) : key = PsaKey(centers[k], threshold[a])
                a == CHOOSE a \in 1..Len(threshold) : key = PsaKey(centers[k], threshold[a])
            IN  SortedList({rows[i][2] : i \in {i \in 1..Len(rows) :
                                rows[i][1] = centers[k] /\ keep(i, threshold[a])}})]

\* cd.estimate_psa(centers, threshold)
EstimatePsa(centers, threshold) ==
    LET err == PsaError(cd, centers, threshold)
    IN  /\ last' = IF err # "" THEN Raised("estimate_psa", err)
                   ELSE ReturnedValue("estimate_psa", PsaDict(cd, centers, threshold))
        /\ UNCHANGED <<cd, dc, X_fit, pred_group, pred_ret, choice_probs, div_shares, fit_calls>>

\* the rows of the service-area frames: two corporations, three geographies
PsaRows ==
    {[choice |-> "z", geog |-> 1, wght |-> 15], [choice |-> "z", geog |-> 2, wght |-> 6],
     [choice |-> "z", geog |-> 3, wght |-> 1], [choice |-> "x", geog |-> 1, wght |-> 6],
     [choice |-> "x", geog |-> 1, wght |-> 1], [choice |-> "x", geog |-> 2, wght |-> 1],
     [choice |-> "x", geog |-> 3, wght |-> 15]}

PsaRank(r) == (CorpRank(r.choice) * 4 + r.geog) * 16 + r.wght

RECURSIVE PsaFrame(_)
\* the rows of S as a frame, in the order of PsaRank
PsaFrame(S) ==
    IF S = {} THEN <<>>
    ELSE LET r == CHOOSE r \in S : \A q \in S : PsaRank(r) <= PsaRank(q)
         IN  <<r>> \o PsaFrame(S \ {r})

\* ChoiceData(data, 'choice', geog_var='geog', wght_var=wght_var) for the
\* frames of one to MaxRows + 1 different rows
PsaData ==
    {ChoiceDataObject([data |-> [ty |-> "DataFrame", columns |-> {"choice", "geog", "wght"},
                                 rows |-> PsaFrame(S)],
                       choice_var |-> "choice", corp_var |-> "None",
                       geog_var |-> "geog", wght_var |-> wv]) :
        S \in {S \in SUBSET PsaRows : S # {} /\ Cardinality(S) <= MaxRows + 1},
        wv \in {"wght", "None"}}

PsaCenters == {<<"x">>, <<"z">>, <<"x", "z">>, <<"y">>}

PsaThresholds ==
    {<<Threshold("float", 3, 4, "0.75")>>,
     <<Threshold("float", 1, 2, "0.5"), Threshold("float", 3, 4, "0.75")>>,
     <<Threshold("float", 3, 4, "0.75"), Threshold("int", 75, 1, "75")>>,
     <<Threshold("float", 3, 2, "1.5")>>}

InitPsa ==
    /\ cd \in PsaData
    /\ dc = NoObject
    /\ Unfitted

NextPsa ==
    \E centers \in PsaCenters, threshold \in PsaThresholds : EstimatePsa(centers, threshold)

SpecPsa == InitPsa /\ [][NextPsa]_vars

\* the frames of the calculators: weighted rows, the choices A and B of
\* corporation X and the choice C of corporation Y
CalcRows ==
    {Row(StrV("a"), IntV("1"), "A", 1), Row(StrV("a"), IntV("1"), "B", 2),
     Row(StrV("b"), IntV("1"), "B", 1), Row(StrV("b"), IntV("1"), "C", 2)}

CalcData ==
    UNION {{MkChoiceData(d, "choice", "wght"), MkChoiceData(d, "corp", "wght"),
            MkHospitalData(d, "corp", "wght")} : d \in Frames(CalcRows, MaxRows)}

\* the index labels a restriction is True at
Restrictions == SUBSET (0..(MaxRows - 1))

\* the targets of the diversion calls and the names of the upp calls: two
\* choices, two corporations
CalcNames == {<<"A", "B">>, <<"X", "Y">>}

InitCalc ==
    /\ cd \in CalcData
    /\ dc = MkDiscreteChoice(<<"x1">>, 1)
    /\ Unfitted

NextCalc ==
    \/ \E keep \in Restrictions : RestrictData(keep)
    \/ Fit(FALSE)
    \/ Predict
    \/ \E dch \in CalcNames : Diversion(FALSE, dch, "None")
    \/ WtpChange(<<"A", "B">>)
    \/ \E nm \in CalcNames : Upp(nm[1], nm[2])

SpecCalc == InitCalc /\ [][NextCalc]_vars

---------------------------------------------------------------------------
(* ChoiceData.restrict_data, calculate_shares, calculate_hhi, hhi_change.  *)
(* A share table is [columns, rows]: rows is the set of its rows, each a   *)
(* function of the columns (groupby gives every key one row).  A Python    *)
(* dict is the sequence of its items [key, val], in insertion order.       *)

NoneArg == [ty |-> "NoneType"]
\* a pandas Series of dtype, True at the index labels of keep
SeriesArg(dtype, keep) == [ty |-> "Series", dtype |-> dtype, keep |-> keep]
\* np.where(..., 1, 0): an array, not a Series
ArrayArg(keep) == [ty |-> "ndarray", dtype |-> "int64", keep |-> keep]
DictArg(items) == [ty |-> "dict", items |-> items]
ListArg(elems) == [ty |-> "list", elems |-> elems]
Item(key, val) == [key |-> key, val |-> val]

\* restriction_checks without the test of the dtype
RestrictionChecks_AnySeries(restriction) ==
    IF restriction.ty # "Series" THEN "TypeError"
    ELSE ""

\* restriction_checks
RestrictionChecks(restriction) ==
    IF restriction.ty # "Series" THEN "TypeError"
    ELSE IF restriction.dtype # "bool" THEN "TypeError"
    ELSE ""

\* cd.restrict_data(restriction); a boolean Series that keeps no row is
\* left out, as in RestrictData
RestrictDataBy(restriction) ==
    IF RestrictionChecks(restriction) # ""
    THEN /\ last' = Raised("restrict_data", RestrictionChecks(restriction))
         /\ UNCHANGED <<cd, dc, X_fit, pred_group, pred_ret, choice_probs, div_shares, fit_calls>>
    ELSE RestrictData(restriction.keep)

\* df[restriction]: the rows of c.data the restriction keeps
RestrictedRows(c, restriction) ==
    IF restriction.ty = "NoneType" THEN 1..Len(c.data)
    ELSE {i \in 1..Len(c.data) : c.index[i] \in restriction.keep}

\* the weight column calculate_shares uses, "None" for the row count
SharesWeight(c, weight_var) == IF weight_var = "None" THEN c.wght_var ELSE weight_var

\* the exception calculate_shares raises, "" when it returns
SharesError(c, psa_dict, weight_var, restriction) ==
    IF psa_dict.ty \notin {"dict", "NoneType"} THEN "TypeError"
    ELSE IF restriction.ty # "NoneType" /\ RestrictionChecks(restriction) # "" THEN "TypeError"
    ELSE IF SharesWeight(c, weight_var) # "None" /\ SharesWeight(c, weight_var) \notin c.columns
         THEN "KeyError"
    ELSE IF psa_dict.ty = "dict" /\ c.geog_var = "None" THEN "ValueError"
    ELSE IF psa_dict.ty = "dict" /\ c.geog_var \notin c.columns THEN "KeyError"
    ELSE IF /\ psa_dict.ty = "dict"
            /\ \E k \in 1..Len(psa_dict.items) : \E g \in 1..Len(psa_dict.items[k].val) :
                   \A i \in RestrictedRows(c, restriction) :
                       c.data[i][c.geog_var] # psa_dict.items[k].val[g]
         THEN "ValueError"
    ELSE ""

\* group
SharesGroup(c) == IF c.corp_var = c.choice_var THEN {c.choice_var} ELSE {c.corp_var, c.choice_var}

\* df_shares with the shares taken of the weight of all the data
SharesTable_OfAllRows(c, S, wv) ==
    LET wcol == IF wv = "None" THEN "count" ELSE wv
        weight(T) == IF wv = "None" THEN Cardinality(T) ELSE SumCol(c.data, wv, T)
        same(i) == {j \in S : \A col \in SharesGroup(c) : c.data[j][col] = c.data[i][col]}
        cols == SharesGroup(c) \cup {wcol, wcol \o "_share"}
    IN  [columns |-> cols,
         rows |-> {[col \in cols |->
                       IF col = wcol THEN weight(same(i))
                       ELSE IF col = wcol \o "_share"
                            THEN Frac(weight(same(i)), weight(1..Len(c.data)))
                       ELSE c.data[i][col]] : i \in S}]

\* df_shares of the rows S of c.data, weighted by the column wv
SharesTable(c, S, wv) ==
    LET wcol == IF wv = "None" THEN "count" ELSE wv
        weight(T) == IF wv = "None" THEN Cardinality(T) ELSE SumCol(c.data, wv, T)
        same(i) == {j \in S : \A col \in SharesGroup(c) : c.data[j][col] = c.data[i][col]}
        cols == SharesGroup(c) \cup {wcol, wcol \o "_share"}
    IN  [columns |-> cols,
         rows |-> {[col \in cols |->
                       IF col = wcol THEN weight(same(i))
                       ELSE IF col = wcol \o "_share" THEN Frac(weight(same(i)), weight(S))
                       ELSE c.data[i][col]] : i \in S}]

\* the items of the dict calculate_shares goes through
SharesItems(psa_dict) ==
    IF psa_dict.ty = "NoneType" THEN <<Item("Base Shares", <<>>)>> ELSE psa_dict.items

\* output_dict of calculate_shares
SharesDict(c, psa_dict, weight_var, restriction) ==
    LET items == SharesItems(psa_dict)
        kept(k) == {i \in RestrictedRows(c, restriction) :
                      \/ psa_dict.ty = "NoneType"
                      \/ c.data[i][c.geog_var] \in Range(items[k].val)}
    IN  [key \in {items[k].key : k \in 1..Len(items)} |->
            LET k == CHOOSE k \in 1..Len(items) :
                        items[k].key = key /\ \A j \in (k + 1)..Len(items) : items[j].key # key
            IN  SharesTable(c, kept(k), SharesWeight(c, weight_var))]

\* cd.calculate_shares(psa_dict, weight_var, restriction)
CalculateShares(psa_dict, weight_var, restriction) ==
    LET err == SharesError(cd, psa_dict, weight_var, restriction)
    IN  /\ last' = IF err # "" THEN Raised("calculate_shares", err)
                   ELSE ReturnedValue("calculate_shares",
                                      SharesDict(cd, psa_dict, weight_var, restriction))
        /\ UNCHANGED <<cd, dc, X_fit, pred_group, pred_ret, choice_probs, div_shares, fit_calls>>

\* the order of the choice names: a share table lists its rows in it
ChoiceRank(ch) == IF ch = "A" THEN 1 ELSE IF ch = "B" THEN 2 ELSE IF ch = "C" THEN 3 ELSE 4

RECURSIVE FloatSum(_, _, _)
\* acc and, after it, the float64 values of column col of rows added one
\* by one, in the order of the table
FloatSum(rows, col, acc) ==
    IF Len(acc) # FixedLen \/ rows = {} THEN acc
    ELSE LET r == CHOOSE r \in rows : \A q \in rows : ChoiceRank(r.choice) <= ChoiceRank(q.choice)
         IN  FloatSum(rows \ {r}, col, FloatAdd(acc, FloatDiv(r[col].n, r[col].d)))

\* shares_checks, "" when the column passes: df[share_col].sum() != 1
\* compares the float64 sum with 1; no share of a table is negative
shares_checks(df, share_col) ==
    IF share_col \notin df.columns THEN "KeyError"
    ELSE IF FloatSum(df.rows, share_col, ZeroBits) # OneBits THEN "ValueError"
    ELSE ""

\* (df.groupby(group_col).sum()[share_col] ** 2).sum() * 10000, the rows
\* whose group is in trans counted as the one group 'combined'
HhiCombined(df, share_col, group_col, trans) ==
    LET name(r) == IF r[group_col] \in trans THEN "combined" ELSE r[group_col]
        groups == {name(r) : r \in df.rows}
        total(g) == LET T == {r \in df.rows : name(r) = g}
                    IN  SumF([r \in T |-> r[share_col]], T)
    IN  MulF(SumF([g \in groups |-> MulFF(total(g), total(g))], groups), 10000)

HhiOf(df, share_col, group_col) == HhiCombined(df, share_col, group_col, {})

\* the exception calculate_hhi raises for one table
HhiTableError(c, df, share_col, group_col) ==
    IF shares_checks(df, share_col) # "" THEN shares_checks(df, share_col)
    ELSE IF (IF group_col = "None" THEN c.corp_var ELSE group_col) \notin df.columns
         THEN "KeyError"
    ELSE ""

\* the exception calculate_hhi raises, "" when it returns: that of the
\* first table that has one
HhiError(c, shares_dict, share_col, group_col) ==
    IF shares_dict.ty # "dict" THEN "TypeError"
    ELSE IF group_col # "None" /\ group_col \notin c.columns THEN "KeyError"
    ELSE LET items == shares_dict.items
             bad == {k \in 1..Len(items) : HhiTableError(c, items[k].val, share_col, group_col) # ""}
         IN  IF bad = {} THEN ""
             ELSE HhiTableError(c, items[CHOOSE k \in bad : \A j \in bad : k <= j].val,
                                share_col, group_col)

\* output_dict of calculate_hhi
HhiDict(c, shares_dict, share_col, group_col) ==
    LET items == shares_dict.items
    IN  [key \in {items[k].key : k \in 1..Len(items)} |->
            LET k == CHOOSE k \in 1..Len(items) : items[k].key = key
            IN  HhiOf(items[k].val, share_col,
                      IF group_col = "None" THEN c.corp_var ELSE group_col)]

\* the default of share_col in calculate_hhi and in hhi_change
DefaultShareCol == "count_share"

\* cd.calculate_hhi(shares_dict, share_col, group_col)
CalculateHhi(shares_dict, share_col, group_col) ==
    LET err == HhiError(cd, shares_dict, share_col, group_col)
    IN  /\ last' = IF err # "" THEN Raised("calculate_hhi", err)
                   ELSE ReturnedValue("calculate_hhi",
                                      HhiDict(cd, shares_dict, share_col, group_col))
        /\ UNCHANGED <<cd, dc, X_fit, pred_group, pred_ret, choice_probs, div_shares, fit_calls>>

\* b - a of two fractions, a <= b
SubF(b, a) == Frac(b.n * a.d - a.n * b.d, a.d * b.d)

\* the exception hhi_change raises for one item of trans_dict
TransItemError(c, item) ==
    IF item.val.ty # "list" THEN "TypeError"
    ELSE IF Len(item.val.elems) < 2 THEN "ValueError"
    ELSE IF \E e \in Range(item.val.elems) :
               \A i \in 1..Len(c.data) : c.data[i][c.corp_var] # e
         THEN "ValueError"
    ELSE ""

\* the exception hhi_change raises for one share table
TransTableError(c, df, share_col) ==
    IF shares_checks(df, share_col) # "" THEN shares_checks(df, share_col)
    ELSE IF c.corp_var \notin df.columns THEN "KeyError"
    ELSE ""

\* the exception hhi_change(trans_dict, shares, share_col=share_col) raises,
\* "" when it returns
HhiChangeError(c, trans_dict, shares, share_col) ==
    IF trans_dict.ty # "dict" THEN "TypeError"
    ELSE LET items == trans_dict.items
             bad == {k \in 1..Len(items) : TransItemError(c, items[k]) # ""}
             tables == shares.items
             badt == {k \in 1..Len(tables) : TransTableError(c, tables[k].val, share_col) # ""}
         IN  IF bad # {} THEN TransItemError(c, items[CHOOSE k \in bad : \A j \in bad : k <= j])
             ELSE IF items # <<>> /\ badt # {}
                  THEN TransTableError(c, tables[CHOOSE k \in badt : \A j \in badt : k <= j].val,
                                       share_col)
             ELSE ""

\* output_dict of hhi_change: for every key of trans_dict and every key of
\* shares the rows 'Pre-Merger HHI', 'Post-Merger HHI', 'HHI Change'
HhiChangeDict(c, trans_dict, shares, share_col) ==
    LET items == trans_dict.items
        tables == shares.items
    IN  [tk \in {items[k].key : k \in 1..Len(items)} |->
            [key \in {tables[k].key : k \in 1..Len(tables)} |->
                LET t == CHOOSE t \in 1..Len(items) : items[t].key = tk
                    k == CHOOSE k \in 1..Len(tables) : tables[k].key = key
                    pre == HhiOf(tables[k].val, share_col, c.corp_var)
                    post == HhiCombined(tables[k].val, share_col, c.corp_var,
                                        Range(items[t].val.elems))
                IN  [pre |-> pre, post |-> post, change |-> SubF(post, pre)]]]

\* cd.hhi_change(trans_dict, shares, share_col=share_col)
HhiChange(trans_dict, shares, share_col) ==
    LET err == HhiChangeError(cd, trans_dict, shares, share_col)
    IN  /\ last' = IF err # "" THEN Raised("hhi_change", err)
                   ELSE ReturnedValue("hhi_change",
                                      HhiChangeDict(cd, trans_dict, shares, share_col))
        /\ UNCHANGED <<cd, dc, X_fit, pred_group, pred_ret, choice_probs, div_shares, fit_calls>>

\* the rows of the share frames: choices A and B of corporation x, C of y,
\* D of z, in two geographies
ShareRow(ch, corp, g, w) ==
    [x |-> [x1 |-> StrV(IF g = 1 THEN "a" ELSE "b"), x2 |-> IntV("1")],
     choice |-> ch, corp |-> corp, geog |-> g, wght |-> w]

ShareRows ==
    {ShareRow("A", "x", 1, 2), ShareRow("B", "x", 2, 1),
     ShareRow("C", "y", 1, 1), ShareRow("D", "z", 2, 1)}

\* ChoiceData(data, 'choice', corp_var='corp', geog_var='geog', wght_var=wv)
ShareData ==
    {ChoiceDataObject([data |-> [ty |-> "DataFrame",
                                 columns |-> {"x1", "x2", "choice", "corp", "geog", "wght"},
                                 rows |-> d],
                       choice_var |-> "choice", corp_var |-> "corp",
                       geog_var |-> "geog", wght_var |-> wv]) :
        d \in Frames(ShareRows, MaxRows), wv \in {"wght", "None"}}

\* the restrictions of the calls: boolean Series, a Series of integers, an
\* array
RestrictionArgs ==
    {SeriesArg("bool", keep) : keep \in Restrictions}
        \cup {SeriesArg("int64", {0}), ArrayArg({0})}

PsaDicts ==
    {NoneArg,
     DictArg(<<Item("x_0.75", <<1>>)>>),
     DictArg(<<Item("x_0.75", <<1>>), Item("x_0.9", <<1, 2>>)>>),
     DictArg(<<Item("x_0.75", <<>>)>>),
     ListArg(<<1>>)}

\* a table with the columns of the tests: corporation, choice, share
TestTable ==
    LET row(corp, ch, share) == [col \in {"corp", "choice", "share"} |->
                                    IF col = "corp" THEN corp
                                    ELSE IF col = "choice" THEN ch ELSE share]
    IN  [columns |-> {"corp", "choice", "share"},
         rows |-> {row("x", "A", Frac(3, 10)), row("x", "B", Frac(1, 5)),
                   row("y", "C", Frac(1, 4)), row("z", "D", Frac(1, 4))}]

\* the share tables and the share_col of a call: the default column, and
\* the column the table has
ShareCalls(c) ==
    {<<DictArg(<<Item("Base Shares", SharesDict(c, NoneArg, "None", NoneArg)["Base Shares"])>>),
       col>> : col \in {DefaultShareCol, "wght_share"}}
        \cup {<<DictArg(<<Item("Base Shares", TestTable)>>), col>> : col \in {DefaultShareCol, "share"}}

\* the arguments of the calculate_shares calls: psa_dict, weight_var,
\* restriction
SharesArgs ==
    {<<psa_dict, "None", NoneArg>> : psa_dict \in PsaDicts}
        \cup {<<NoneArg, "wght", NoneArg>>, <<NoneArg, "w", NoneArg>>,
              <<NoneArg, "None", SeriesArg("bool", {0, 1})>>,
              <<NoneArg, "None", ArrayArg({0})>>,
              <<DictArg(<<Item("x_0.75", <<1>>)>>), "None", SeriesArg("bool", {0, 1})>>}

\* the corporations to combine: a list as in the tests, named lists, a
\* named list of one corporation
TransDicts ==
    {ListArg(<<"y", "z">>),
     DictArg(<<Item("yz", ListArg(<<"y", "z">>))>>),
     DictArg(<<Item("xy", ListArg(<<"x", "y">>))>>),
     DictArg(<<Item("x", ListArg(<<"x">>))>>)}

InitShares ==
    /\ cd \in ShareData
    /\ dc = MkDiscreteChoice(<<"x1">>, 1)
    /\ Unfitted

NextShares ==
    \/ \E r \in RestrictionArgs : RestrictDataBy(r)
    \/ \E a \in SharesArgs : CalculateShares(a[1], a[2], a[3])
    \/ \E s \in ShareCalls(cd) : CalculateHhi(s[1], s[2], "None")
    \/ \E trans_dict \in TransDicts, s \in ShareCalls(cd) : HhiChange(trans_dict, s[1], s[2])

SpecShares == InitShares /\ [][NextShares]_vars

---------------------------------------------------------------------------
(* The claims about fit and about predict on the fitted dataset, checked   *)
(* under SpecFit                                                           *)

\* the signatures of the prefixes of coef_order for one row
PrefixKey(r, k) == JoinKey(r, SubSeq(dc.coef_order, 1, k))
PrefixKeys(r) == {PrefixKey(r, k) : k \in 1..Len(dc.coef_order)}

\* C1: after fit's grouping rounds every input observation carries exactly
\* one group label, the signature of one of its covariate prefixes or
\* "ungrouped", so that the observations with a signature and the ungrouped
\* ones are disjoint and together number the rows of the input
C1_PartitionComplete ==
    X_fit # <<>> =>
        LET rows == 1..Len(X_fit)
            grouped == {i \in rows : X_fit[i].group \in PrefixKeys(X_fit[i])}
            ungrouped == {i \in rows : X_fit[i].group = "ungrouped"}
        IN  /\ Len(X_fit) = Len(cd.data)
            /\ \A i \in rows : X_fit[i].x = cd.data[i].x
            /\ grouped \cap ungrouped = {}
            /\ Cardinality(grouped) + Cardinality(ungrouped) = Len(cd.data)

\* a fit that grouped one observation and left another one ungrouped
C1_SomeGroupedSomeUngrouped ==
    /\ X_fit # <<>>
    /\ \E i, j \in 1..Len(X_fit) :
          /\ X_fit[i].group = "ungrouped"
          /\ X_fit[j].group \in PrefixKeys(X_fit[j])

\* C2: predict on the dataset that was just fitted matches every observation
\* to the cell fit assigned it to, "ungrouped" included, and returns that
\* cell's shares for it
C2_PredictSameCell ==
    (last = Returned("predict") /\ X_fit # <<>>) =>
        \A i \in 1..Len(cd.data) :
            /\ pred_group[i] = X_fit[i].group
            /\ pred_ret.rows[i] = dc.coef_.cells[X_fit[i].group]

\* C3: predict assigns each observation the key of the longest prefix of its
\* coef_order values that is a group key of the cell table, and "ungrouped"
\* exactly when no prefix is a key
C3_LongestPrefix ==
    last = Returned("predict") =>
        \A i \in 1..Len(cd.data) :
            LET K == {k \in 1..Len(dc.coef_order) :
                        PrefixKey(cd.data[i], k) \in DOMAIN dc.coef_.cells}
            IN  IF K = {}
                THEN pred_group[i] = "ungrouped"
                ELSE /\ pred_group[i] = PrefixKey(cd.data[i], CHOOSE k \in K : \A m \in K : m <= k)
                     /\ pred_group[i] # "ungrouped"

\* a prediction with a row that has two prefixes among the keys and a row
\* whose longest prefix is no key while a shorter one is
C3_TwoKeysAndFallback ==
    /\ last = Returned("predict")
    /\ Len(dc.coef_order) = 2
    /\ \E i, j \in 1..Len(cd.data) :
          /\ \A k \in 1..2 : PrefixKey(cd.data[i], k) \in DOMAIN dc.coef_.cells
          /\ PrefixKey(cd.data[j], 2) \notin DOMAIN dc.coef_.cells
          /\ pred_group[j] = PrefixKey(cd.data[j], 1)

\* C5: in every fitted cell table each cell's shares sum to 1, each share is
\* the cell's weight for the choice over the cell's total weight, no cell has
\* zero total weight, and an "ungrouped" row is there only when some
\* observation was left ungrouped
C5_CellsNormalised ==
    X_fit # <<>> =>
        LET rows == 1..Len(X_fit)
            total(g) == SumWght(X_fit, {i \in rows : X_fit[i].group = g})
            w(g, c) == SumWght(X_fit, {i \in rows : X_fit[i].group = g /\ X_fit[i].choice = c})
        IN  /\ \A g \in DOMAIN dc.coef_.cells :
                  /\ total(g) > 0
                  /\ SumF(dc.coef_.cells[g], dc.coef_.columns) = OneF
                  /\ \A c \in dc.coef_.columns :
                        dc.coef_.cells[g][c].n * total(g) = w(g, c) * dc.coef_.cells[g][c].d
            /\ "ungrouped" \in DOMAIN dc.coef_.cells => \E i \in rows : ~X_fit[i].grouped

---------------------------------------------------------------------------
(* The claims about sessions of calls, checked under Spec                  *)

\* C4: every row of the table predict returns sums to 1, also for the rows
\* of a dataset with covariate combinations the fit did not see
C4_PredictRowsSumToOne ==
    last = Returned("predict") =>
        \A i \in 1..Len(pred_ret.rows) : SumF(pred_ret.rows[i], pred_ret.columns) = OneF

\* C6: while no fit call on the estimator has returned, also after one that
\* raised, predict raises the not-fitted error and returns no table
C6_PredictNotFitted ==
    (~fit_calls.returned /\ last.op = "predict") =>
        /\ last.err = "RuntimeError"
        /\ pred_ret = NoProbs
        /\ choice_probs = NoProbs

\* predict was called after a fit call that raised, no fit call having returned
C6_PredictAfterFailedFit ==
    /\ fit_calls.raised
    /\ ~fit_calls.returned
    /\ last = Raised("predict", "RuntimeError")

\* C7: diversion, wtp_change and upp on an estimator that has never been
\* fitted fail with the not-fitted error instead of computing a result (a
\* call with arguments its own checks reject may fail on those first)
C7_DownstreamNotFitted ==
    (/\ ~fit_calls.returned
     /\ last.op \in {"diversion", "wtp_change", "wtp_change_warned", "upp"}
     /\ last.err \notin {"ValueError", "KeyError"}) =>
        last.err = "RuntimeError"

\* C8: the cell table is the table of the most recent successful fit alone:
\* a fit that returns sets it to the table of its own dataset, no cell of an
\* earlier table added; every other step (predict, diversion, wtp_change, upp,
\* a fit that raises) leaves it as it is
C8_CoefOnlyByFit ==
    [][IF last' = Returned("fit")
       THEN \E use_corp \in BOOLEAN :
               /\ use_corp = dc'.used_corp
               /\ LET X == Grouped(cd, dc.coef_order, dc.min_bin, use_corp)
                  IN  /\ dc'.coef_ = CellTable(X)
                      /\ DOMAIN dc'.coef_.cells = {X[i].group : i \in 1..Len(X)}
       ELSE dc'.coef_ = dc.coef_ /\ dc'.fitted = dc.fitted]_vars

\* predict, diversion and upp have returned after the fit of this dataset,
\* and the cell table is still the table of that fit
C8_CallsAfterFit ==
    /\ last.op = "upp"
    /\ last.err = ""
    /\ X_fit # <<>>
    /\ choice_probs # NoProbs
    /\ dc.coef_ = CellTable(X_fit)

\* C9: a predict call that follows a predict call with the same dataset, no
\* fit call between them, returns the same table, whatever diversion,
\* wtp_change and upp calls lie between
C9_PredictIdempotent ==
    [][(last' = Returned("predict") /\ pred_ret # NoProbs) => pred_ret' = pred_ret]_vars

\* a diversion has written its columns into the table predict returned, and
\* no fit call and no other dataset has followed that predict
C9_DiversionAfterPredict ==
    /\ last = Returned("diversion")
    /\ pred_ret # NoProbs
    /\ choice_probs # pred_ret
    /\ choice_probs.rows = pred_ret.rows

\* C10: for every target of a diversion that returned, the shares over the
\* alternatives outside the target's own choices sum to 1, also when a row of
\* the target has all its probability on the target's own choices.  Stated
\* for the calls that pass the table predict returned, every row of it
\* summing to 1, and for the targets that some row chose and that leave an
\* alternative outside (every call the sessions' diversion accepts passes no
\* div_choices_var)
C10_DiversionSumsToOne ==
    (/\ last = Returned("diversion")
     /\ pred_ret # NoProbs
     /\ choice_probs.rows = pred_ret.rows
     /\ choice_probs.choice # <<>>
     /\ \A i \in 1..Len(pred_ret.rows) : SumF(pred_ret.rows[i], pred_ret.columns) = OneF) =>
        \A t \in DOMAIN div_shares.shares :
            LET own == DivList(cd, t, "None")
                outside == div_shares.index \ own
            IN  (outside # {} /\ \E i \in 1..Len(choice_probs.rows) : choice_probs.choice[i] \in own) =>
                    SumF(div_shares.shares[t], outside) = OneF

---------------------------------------------------------------------------
(* The claims about the calculators on restricted and renamed datasets,    *)
(* checked under SpecCalc                                                  *)

\* the rows of the dataset whose observed choice is one of the choices T
RowsOf(c, T) == {i \in 1..Len(c.data) : c.data[i][c.choice_var] \in T}

\* C11: for a target T of a diversion that returned and an alternative x of
\* the table outside T, the table returned has share(x) = S(x) / sum of S(y)
\* over the alternatives y outside T, where S(x) sums, over the rows whose
\* observed choice is in T, weight * p(x) / (sum of p over the alternatives
\* outside T).  Stated for a table without NaN, the targets that some row
\* chose and whose rows all have some probability outside T.
C11_DiversionShares ==
    (/\ last = Returned("diversion")
     /\ \A i \in 1..Len(choice_probs.rows) : \A x \in choice_probs.columns :
            ~IsNaNF(choice_probs.rows[i][x])) =>
        \A t \in DOMAIN div_shares.shares :
            LET T == DivList(cd, t, "None")
                outside == choice_probs.columns \ T
                rows == RowsOf(cd, T)
                rowsum(i) == SumF(choice_probs.rows[i], outside)
                S == [x \in outside |->
                        SumF([i \in rows |->
                                 MulF(DivF(choice_probs.rows[i][x], rowsum(i)),
                                      cd.data[i][cd.wght_var])], rows)]
            IN  (rows # {} /\ \A i \in rows : rowsum(i).n > 0) =>
                    \A x \in outside :
                        /\ x \in div_shares.index
                        /\ div_shares.shares[t][x] = DivF(S[x], SumF(S, outside))

\* C12: a diversion call whose table has as many rows as the dataset pairs
\* the i-th row of the table with the observed choice and the weight of the
\* i-th row of the dataset, also when restrict_data filtered the dataset
\* before fit and predict; with different row counts it raises the mismatch
\* error
C12_PositionalPairing ==
    last.op = "diversion" =>
        IF Len(choice_probs.rows) # Len(cd.data)
        THEN last.err = "ValueError"
        ELSE /\ choice_probs.choice = [i \in 1..Len(cd.data) |-> cd.data[i][cd.choice_var]]
             /\ last.err = "" =>
                    choice_probs.wght = [i \in 1..Len(cd.data) |-> cd.data[i][cd.wght_var]]

\* C13: a diversion call, whether it returns or raises, leaves the table the
\* caller passed as it was: the same columns and the same values
C13_TableUnchanged ==
    [][last'.op = "diversion" => choice_probs' = choice_probs]_vars

\* the table the caller holds is the one predict returned for cd as it is now
HoldsPrediction ==
    /\ pred_ret # NoProbs
    /\ choice_probs.rows = pred_ret.rows

\* C14: when some member probability or the combined probability of the
\* combination <<A, B>> equals 1 for some observation, wtp_change warns, does
\* not raise, and returns a result whose entry for that column is infinite.
\* Stated for the calls that pass the prediction of the dataset, both names
\* being columns of it.
C14_WarnsAndInfinite ==
    (/\ last.op \in {"wtp_change", "wtp_change_warned"}
     /\ HoldsPrediction
     /\ {"A", "B"} \subseteq choice_probs.columns) =>
        \A t \in {"A", "B", "combined"} :
            (\E i \in 1..Len(choice_probs.rows) :
                (IF t = "combined" THEN SumF(choice_probs.rows[i], {"A", "B"})
                 ELSE choice_probs.rows[i][t]) = OneF) =>
                /\ last.op = "wtp_change_warned"
                /\ last.err = ""
                /\ last.ret.W[t] = ZeroF

\* the weight of every observation of the dataset, 1 without a weight column
ObsWeights(c) ==
    [i \in 1..Len(c.data) |-> IF c.wght_var # "None" THEN c.data[i][c.wght_var] ELSE 1]

\* C15: for the transaction <<A, B>>, wtp_change returns
\* (W_combined - sum of W_i) / (sum of W_i), where W_i is the sum over the
\* observations of weight * -ln(1 - p_i) for each member i and W_combined is
\* the same aggregate of the sum of the members' probabilities, the weight
\* being the observation's own or 1 without a weight column.  Stated for the
\* calls that pass the prediction of the dataset.
C15_WtpChangeValue ==
    (/\ last.op \in {"wtp_change", "wtp_change_warned"}
     /\ last.err = ""
     /\ HoldsPrediction) =>
        LET n == Len(cd.data)
            p(t) == [i \in 1..n |-> choice_probs.rows[i][t]]
            W_A == LogArg(p("A"), ObsWeights(cd), n)
            W_B == LogArg(p("B"), ObsWeights(cd), n)
            W_combined == LogArg([i \in 1..n |-> AddF(p("A")[i], p("B")[i])], ObsWeights(cd), n)
        IN  /\ last.ret.W = [t \in {"A", "B", "combined"} |->
                                IF t = "A" THEN W_A ELSE IF t = "B" THEN W_B ELSE W_combined]
            /\ last.ret.wtp_change = [combined |-> W_combined, members |-> MulFF(W_A, W_B)]

\* the choices that belong to a corporation: the corporation itself where
\* corp and choice are one column
ChoicesOfCorp(c, corp) ==
    IF c.corp_var = c.choice_var THEN {corp}
    ELSE {c.data[i][c.choice_var] : i \in {i \in 1..Len(c.data) : c.data[i][c.corp_var] = corp}}

\* C16: an upp call for two names of the corp column that have a column in
\* the diversion table returns upp_A = div_A_to_B * margin_B * price_B /
\* price_A and symmetrically upp_B, where div_A_to_B sums A's diversion shares
\* over the choices of corporation B, whatever the choice column is called
\* and whether or not corp and choice are one column
C16_UppValue ==
    [][\A nm \in CalcNames :
          (/\ Upp(nm[1], nm[2])
           /\ \A k \in 1..2 : \E i \in 1..Len(cd.data) : cd.data[i][cd.corp_var] = nm[k]
           /\ {nm[1], nm[2]} \subseteq DOMAIN div_shares.shares) =>
              LET A == UppDict1(nm[1])
                  B == UppDict2(nm[2])
                  div(from, to) == SumF(div_shares.shares[from],
                                        div_shares.index \cap ChoicesOfCorp(cd, to))
                  div_A_to_B == div(A.name, B.name)
                  div_B_to_A == div(B.name, A.name)
              IN  /\ last'.err = ""
                  /\ last'.ret.upp1 = DivF(MulF(MulFF(div_A_to_B, B.margin), B.price),
                                           Frac(A.price, 1))
                  /\ last'.ret.upp2 = DivF(MulF(MulFF(div_B_to_A, A.margin), A.price),
                                           Frac(B.price, 1))]_vars

---------------------------------------------------------------------------
(* The claims about the constructors, checked under SpecNew                *)

\* C17: a DiscreteChoice call with an unsupported solver name, with a
\* coef_order that is not a non-empty list or with a min_bin that is not a
\* number or is <= 0 raises at construction, so that the estimator a fit call
\* reaches has a non-empty coef_order and a positive min_bin
C17_BadConfigurationRaises ==
    /\ last.op = "DiscreteChoice" =>
          LET a == last.ret
          IN  (\/ a.solver # "semiparametric"
               \/ a.coef_order.ty # "list"
               \/ Len(a.coef_order.v) = 0
               \/ a.min_bin.ty \notin {"int", "float"}
               \/ a.min_bin.v <= 0) =>
                  /\ last.err # ""
                  /\ dc = NoObject
    /\ dc # NoObject => Len(dc.coef_order) > 0 /\ dc.min_bin > 0

\* a call with a supported solver, a non-empty list and a numeric min_bin
\* that is <= 0 has raised
C17_NonPositiveMinBinRaised ==
    /\ last.op = "DiscreteChoice"
    /\ last.err = "ValueError"
    /\ last.ret.solver = "semiparametric"
    /\ last.ret.coef_order = PyList(<<"x1">>)
    /\ last.ret.min_bin.ty \in {"int", "float"}
    /\ last.ret.min_bin.v <= 0

\* C18: every ChoiceData that was constructed has no empty value in its
\* choice column and none in its corp column: the constructor raises
\* ValueError for data with one
C18_NoEmptyChoiceOrCorp ==
    cd # NoObject =>
        \A i \in 1..Len(cd.data) :
            /\ cd.data[i][cd.choice_var] # ""
            /\ cd.data[i][cd.corp_var] # ""

\* C19: a ChoiceData call raises TypeError for data that is not a DataFrame,
\* ValueError for an empty DataFrame, and KeyError for a DataFrame with rows
\* when one of the given choice_var, corp_var, geog_var, wght_var is not a
\* column of it; the object of a call without corp_var has corp_var equal to
\* choice_var
C19_ConstructorErrors ==
    last.op = "ChoiceData" =>
        LET a == last.ret
            given == {a.choice_var, a.corp_var, a.geog_var, a.wght_var} \ {"None"}
        IN  /\ a.data.ty # "DataFrame" => last.err = "TypeError"
            /\ (a.data.ty = "DataFrame" /\ Len(a.data.rows) = 0) => last.err = "ValueError"
            /\ (a.data.ty = "DataFrame" /\ Len(a.data.rows) > 0 /\ ~(given \subseteq a.data.columns)) =>
                  last.err = "KeyError"
            /\ last.err # "" => cd = NoObject
            /\ (last.err = "" /\ a.corp_var = "None") => cd.corp_var = cd.choice_var

\* a call without corp_var has returned its object
C19_CorpDefaulted ==
    /\ last.op = "ChoiceData"
    /\ last.err = ""
    /\ last.ret.corp_var = "None"
    /\ cd.corp_var = "choice"


---------------------------------------------------------------------------
(* Claims about the service areas, checked under SpecPsa *)

RECURSIVE PsaVolumes(_, _)
\* the volume of the keys of K together
PsaVolumes(c, K) ==
    IF K = {} THEN 0
    ELSE LET k == CHOOSE k \in K : TRUE IN PsaVolume(c, k) + PsaVolumes(c, K \ {k})

\* the geographies of the corporation of key k ranked before k
PsaAhead(c, k) == {j \in PsaKeys(c) : j[1] = k[1] /\ j # k /\ PsaBefore(c, j, k)}

\* the geographies ranked before key k hold less than the share t of the
\* volume of its corporation
PsaBelow(c, k, t) == PsaVolumes(c, PsaAhead(c, k)) * t.d < t.n * PsaTotal(c, k[1])

\* C20: for every requested center and threshold t, estimate_psa returns
\* under the key "{center}_{t}" the sorted list of the geographies of the
\* center for which the geographies ranked before them, in descending order
\* of the center's volume, hold a cumulative share of that volume below t,
\* whatever other corporations are in the data or requested.
C20_ServiceArea ==
    [][\A centers \in PsaCenters, threshold \in PsaThresholds :
          (EstimatePsa(centers, threshold) /\ PsaError(cd, centers, threshold) = "") =>
              \A k \in 1..Len(centers), a \in 1..Len(threshold) :
                  last'.ret[PsaKey(centers[k], threshold[a])] =
                      SortedList({key[2] : key \in {key \in PsaKeys(cd) :
                                      key[1] = centers[k] /\ PsaBelow(cd, key, threshold[a])}})]_vars

\* threshold[k] is the first threshold that estimate_psa refuses
FirstRefused(threshold, k) ==
    LET ok(t) == t.ty = "float" /\ 0 < t.n /\ t.n <= t.d
    IN  ~ok(threshold[k]) /\ \A j \in 1..(k - 1) : ok(threshold[j])

\* C21: with a float threshold outside (0, 1] estimate_psa raises ValueError,
\* with a threshold that is not a float it raises TypeError, and in both
\* cases it returns no dictionary.
C21_BadThresholdRaises ==
    [][\A centers \in PsaCenters, threshold \in PsaThresholds :
          (EstimatePsa(centers, threshold)
             /\ PsaError(cd, centers, <<Threshold("float", 3, 4, "0.75")>>) = "") =>
              \A k \in 1..Len(threshold) :
                  FirstRefused(threshold, k) =>
                      /\ last'.ret = NoRet
                      /\ last'.err = IF threshold[k].ty = "float" THEN "ValueError"
                                     ELSE "TypeError"]_vars


---------------------------------------------------------------------------
(* Claims about the share tables, the HHI and the restriction of the data, *)
(* checked under SpecShares                                                *)

\* the rows of c.data that calculate_shares keeps for the k-th item of its
\* dict: those of the restriction whose geography is in the item's list
SharesKept(c, psa_dict, restriction, k) ==
    {i \in RestrictedRows(c, restriction) :
        \/ psa_dict.ty = "NoneType"
        \/ c.data[i][c.geog_var] \in Range(psa_dict.items[k].val)}

\* the weight of the rows S of c.data
SharesWeightOf(c, weight_var, S) ==
    IF SharesWeight(c, weight_var) = "None" THEN Cardinality(S)
    ELSE SumCol(c.data, SharesWeight(c, weight_var), S)

\* the table tbl holds, for every (corp, choice) group of the rows S, the
\* weight of the group divided by the weight of S
SharesOfRows(c, weight_var, S, tbl) ==
    LET share_col == (IF SharesWeight(c, weight_var) = "None" THEN "count"
                      ELSE SharesWeight(c, weight_var)) \o "_share"
        group(i) == {j \in S : c.data[j].corp = c.data[i].corp /\ c.data[j].choice = c.data[i].choice}
    IN  /\ \A i \in S : \E r \in tbl.rows :
               /\ r.corp = c.data[i].corp /\ r.choice = c.data[i].choice
               /\ r[share_col] = Frac(SharesWeightOf(c, weight_var, group(i)),
                                      SharesWeightOf(c, weight_var, S))
        /\ \A r \in tbl.rows : \E i \in S :
               r.corp = c.data[i].corp /\ r.choice = c.data[i].choice
        /\ \A r, q \in tbl.rows : r.corp = q.corp /\ r.choice = q.choice => r = q

\* the shares of tbl sum to 1
SharesSumToOne(c, weight_var, tbl) ==
    LET share_col == (IF SharesWeight(c, weight_var) = "None" THEN "count"
                      ELSE SharesWeight(c, weight_var)) \o "_share"
    IN  SumF([r \in tbl.rows |-> r[share_col]], tbl.rows) = OneF

\* C22 as stated: calculate_shares returns one table per key of psa_dict,
\* or the one key "Base Shares", each group's share being its weight
\* divided by the weight of the rows kept for the key, the shares of every
\* table sum to 1, and the stored data is unchanged.
C22_SharesSumToOne ==
    [][\A a \in SharesArgs :
          (CalculateShares(a[1], a[2], a[3]) /\ SharesError(cd, a[1], a[2], a[3]) = "") =>
              /\ cd' = cd
              /\ DOMAIN last'.ret = {SharesItems(a[1])[k].key : k \in 1..Len(SharesItems(a[1]))}
              /\ \A k \in 1..Len(SharesItems(a[1])) :
                     LET tbl == last'.ret[SharesItems(a[1])[k].key]
                     IN  /\ SharesOfRows(cd, a[2], SharesKept(cd, a[1], a[3], k), tbl)
                         /\ SharesSumToOne(cd, a[2], tbl)]_vars

\* C22, amended: the same, the shares of a table summing to 1 when at least
\* one row is kept for its key; a key that keeps no row (an empty list of
\* geographies, a restriction that is False on every row) has an empty
\* table.
C22_SharesOfKeptRows ==
    [][\A a \in SharesArgs :
          (CalculateShares(a[1], a[2], a[3]) /\ SharesError(cd, a[1], a[2], a[3]) = "") =>
              /\ cd' = cd
              /\ DOMAIN last'.ret = {SharesItems(a[1])[k].key : k \in 1..Len(SharesItems(a[1]))}
              /\ \A k \in 1..Len(SharesItems(a[1])) :
                     LET tbl == last'.ret[SharesItems(a[1])[k].key]
                         kept == SharesKept(cd, a[1], a[3], k)
                     IN  /\ SharesOfRows(cd, a[2], kept, tbl)
                         /\ kept # {} => SharesSumToOne(cd, a[2], tbl)
                         /\ kept = {} => tbl.rows = {}]_vars

\* C22 witness: calculate_shares has returned the table of a key whose list
\* leaves out a geography of the data, with two groups of different shares
C22_TableOfOnePsa ==
    /\ last.op = "calculate_shares" /\ last.err = ""
    /\ DOMAIN last.ret = {"x_0.75"}
    /\ \E i \in 1..Len(cd.data) : cd.data[i].geog = 2
    /\ \E r, q \in last.ret["x_0.75"].rows :
           r.choice # q.choice /\ r[CHOOSE col \in DOMAIN r : col \notin {"corp", "choice", "count", "wght"}]
                                     # q[CHOOSE col \in DOMAIN q : col \notin {"corp", "choice", "count", "wght"}]

\* the column of a share table that holds the shares
ShareColOf(tbl) == CHOOSE col \in tbl.columns : col \notin {"corp", "choice", "count", "wght"}

\* 10000 times the sum over the corporations of the square of the
\* corporation's total share
HhiValue(tbl) ==
    LET corps == {r.corp : r \in tbl.rows}
        share(corp) == LET T == {r \in tbl.rows : r.corp = corp}
                       IN  SumF([r \in T |-> r[ShareColOf(tbl)]], T)
    IN  MulF(SumF([corp \in corps |-> MulFF(share(corp), share(corp))], corps), 10000)

\* C23: calculate_hhi called with a dict of share tables and default
\* arguments returns for each key 10000 times the sum over the
\* corporations of the squared total share of the corporation, for the
\* tables calculate_shares returns and for tables with the columns
\* corporation, choice and share.
C23_HhiOfShareTables ==
    [][\A s \in ShareCalls(cd) :
          (CalculateHhi(s[1], s[2], "None") /\ s[2] = DefaultShareCol) =>
              /\ last'.err = ""
              /\ \A k \in 1..Len(s[1].items) :
                     last'.ret[s[1].items[k].key] = HhiValue(s[1].items[k].val)]_vars

\* 10000 * ((sum of s_i)^2 - sum of s_i^2) over the corporations of trans
HhiChangeValue(tbl, trans) ==
    LET corps == {r.corp : r \in tbl.rows} \cap trans
        share(corp) == LET T == {r \in tbl.rows : r.corp = corp}
                       IN  SumF([r \in T |-> r[ShareColOf(tbl)]], T)
        all == SumF([corp \in corps |-> share(corp)], corps)
    IN  MulF(SubF(MulFF(all, all), SumF([corp \in corps |-> MulFF(share(corp), share(corp))], corps)),
             10000)

\* the corporations a trans_dict names: those of a list, or of the named
\* lists
TransNames(trans_dict) ==
    IF trans_dict.ty = "list" THEN [combined |-> Range(trans_dict.elems)]
    ELSE [key \in {trans_dict.items[k].key : k \in 1..Len(trans_dict.items)} |->
             Range((CHOOSE it \in Range(trans_dict.items) : it.key = key).val.elems)]

\* C24: hhi_change, given the corporations to combine, as a list or as
\* named lists of two corporations of the data, and a dict of share tables
\* with their share column, returns for each key of the share tables the
\* post-merger HHI less the pre-merger HHI, that is 10000 * ((sum of
\* s_i)^2 - sum of s_i^2) over the combined corporations, which is never
\* negative.
C24_HhiChangeValue ==
    [][\A trans_dict \in TransDicts, s \in ShareCalls(cd) :
          (/\ HhiChange(trans_dict, s[1], s[2])
           /\ s[2] = ShareColOf(s[1].items[1].val)
           /\ \A name \in DOMAIN TransNames(trans_dict) :
                  /\ Cardinality(TransNames(trans_dict)[name]) >= 2
                  /\ TransNames(trans_dict)[name] \subseteq {cd.data[i].corp : i \in 1..Len(cd.data)}) =>
              /\ last'.err = ""
              /\ \A name \in DOMAIN last'.ret : \A key \in DOMAIN last'.ret[name] :
                     LET tbl == (CHOOSE it \in Range(s[1].items) : it.key = key).val
                         hhi == last'.ret[name][key]
                     IN  /\ hhi.change = SubF(hhi.post, hhi.pre)
                         /\ hhi.change = HhiChangeValue(tbl, TransNames(trans_dict)[name])
                         /\ hhi.change.n >= 0]_vars

\* a ChoiceData made anew of the rows c holds
Fresh(c) == [c EXCEPT !.index = [i \in 1..Len(c.data) |-> i - 1]]

\* the rows of c.data at which the boolean Series restriction is True
TrueRows(c, restriction) ==
    LET pos == Positions(c.index, restriction.keep)
    IN  [k \in 1..Len(pos) |-> c.data[pos[k]]]

\* C25: restrict_data with a boolean Series keeps exactly the rows at which
\* the Series is True, so that successive restrictions keep the rows at
\* which all of them are True, and what calculate_shares, estimate_psa and
\* the grouping of fit compute afterwards is what they compute on a
\* ChoiceData of those rows alone; a restriction that is not a boolean
\* Series raises TypeError and leaves the data as it is.
C25_RestrictionKeepsTrueRows ==
    [][\A r \in RestrictionArgs : RestrictDataBy(r) =>
          IF r.ty = "Series" /\ r.dtype = "bool"
          THEN /\ last'.err = ""
               /\ cd'.data = TrueRows(cd, r)
               /\ Range(cd'.index) = Range(cd.index) \cap r.keep
               /\ Len(cd'.index) = Len(cd'.data)
               /\ SharesDict(cd', NoneArg, "None", NoneArg)
                      = SharesDict(Fresh(cd'), NoneArg, "None", NoneArg)
               /\ PsaDict(cd', <<"x">>, <<Threshold("float", 3, 4, "0.75")>>)
                      = PsaDict(Fresh(cd'), <<"x">>, <<Threshold("float", 3, 4, "0.75")>>)
               /\ Grouped(cd', dc.coef_order, dc.min_bin, FALSE)
                      = Grouped(Fresh(cd'), dc.coef_order, dc.min_bin, FALSE)
          ELSE /\ last'.err = "TypeError"
               /\ cd' = cd]_vars

\* C25 witness: restrict_data has returned and has left, of the rows of
\* the data, the one with the index label 1
C25_RestrictedTwice ==
    /\ last.op = "restrict_data" /\ last.err = ""
    /\ cd.index = <<1>>
    /\ X_fit = <<>>


---------------------------------------------------------------------------
(* Claims about the grouping of fit, checked under SpecFit *)

\* the observations of X that share the covariate prefix cols of row r and
\* that no finer round has grouped
PrefixMates(X, r, cols) == {i \in 1..Len(X) : ~X[i].grouped /\ SameBin(X[i], r, cols)}

\* one round as stated: an observation not yet grouped is grouped under its
\* prefix when its mates weigh min_bin or more together
StatedRound(X, cols, min_bin) ==
    [i \in 1..Len(X) |->
        IF ~X[i].grouped /\ SumWght(X, PrefixMates(X, X[i], cols)) >= min_bin
        THEN [X[i] EXCEPT !.grouped = TRUE, !.group = JoinKey(X[i], cols)]
        ELSE X[i]]

RECURSIVE StatedRounds(_, _, _, _)
\* the rounds as stated, from the prefix of length j down to length 1
StatedRounds(X, coef_order, min_bin, j) ==
    IF j = 0 THEN X
    ELSE StatedRounds(StatedRound(X, SubSeq(coef_order, 1, j), min_bin), coef_order, min_bin, j - 1)

\* C26: fit puts an observation in the cell of its covariate prefix of
\* length j exactly when j is the largest length at which the observations
\* that share the prefix and that no finer round grouped weigh min_bin or
\* more, and labels it "ungrouped" exactly when there is no such length; so
\* every cell of the fitted table but "ungrouped" weighs min_bin or more.
C26_GroupedAtLargestPrefix ==
    (last.op = "fit" /\ last.err = "") =>
        LET stated == StatedRounds(FitFrame(cd, dc.used_corp), dc.coef_order, dc.min_bin,
                                   Len(dc.coef_order))
        IN  /\ \A i \in 1..Len(X_fit) :
                   /\ stated[i].grouped => X_fit[i].group = stated[i].group
                   /\ ~stated[i].grouped <=> X_fit[i].group = "ungrouped"
            /\ \A i \in 1..Len(X_fit) :
                   X_fit[i].group # "ungrouped" =>
                       SumWght(X_fit, {j \in 1..Len(X_fit) : X_fit[j].group = X_fit[i].group})
                           >= dc.min_bin


---------------------------------------------------------------------------
(* Claims about the rounds of fit, checked under SpecRounds *)

\* an observation not yet grouped
NotGrouped(r) == ~r.grouped

\* the number of observations not yet grouped among the first i of X
RankNotGrouped(X, i) == Cardinality({j \in 1..i : ~X[j].grouped})

\* C27: in a round of fit an observation that an earlier round grouped
\* stays grouped and keeps its group label, and its weight counts for no
\* group of the round: the round does to the other observations what it
\* does to them alone.
C27_GroupedOnce ==
    [][FitRound =>
          /\ \A i \in 1..Len(X_fit) :
                 X_fit[i].grouped => X_fit'[i].grouped /\ X_fit'[i].group = X_fit[i].group
          /\ LET alone == GroupRound(SelectSeq(X_fit, NotGrouped), last'.ret.bin_by_cols,
                                     dc.min_bin)
             IN  \A i \in 1..Len(X_fit) :
                     ~X_fit[i].grouped => X_fit'[i] = alone[RankNotGrouped(X_fit, i)]]_vars

\* C27 witness: after the second round an observation that the first round
\* grouped stands beside one that no round has grouped
C27_GroupedBesideUngrouped ==
    /\ last.op = "fit_loop"
    /\ last.ret.i = TrailingCols + 2
    /\ \E i, j \in 1..Len(X_fit) :
           /\ X_fit[i].grouped /\ X_fit[i].group = JoinKey(X_fit[i], dc.coef_order)
           /\ ~X_fit[j].grouped
           /\ X_fit[i].x.x1 = X_fit[j].x.x1
           /\ X_fit[i].wght + X_fit[j].wght >= dc.min_bin

\* C28: for a coef_order of length k the grouping of fit makes exactly k
\* rounds, on the covariate prefixes of length k, k-1, ..., 1 in that
\* order, and then the loop is over.
C28_RoundsByPrefix ==
    [][/\ FitRound =>
             /\ last'.ret.i - TrailingCols \in 1..Len(dc.coef_order)
             /\ last'.ret.bin_by_cols
                    = SubSeq(dc.coef_order, 1,
                             Len(dc.coef_order) - (last'.ret.i - TrailingCols) + 1)
       /\ FitEnd =>
             /\ last.ret.i - TrailingCols = Len(dc.coef_order)
             /\ last.ret.bin_by_cols = <<dc.coef_order[1]>>
             /\ X_fit' = Grouped(cd, dc.coef_order, dc.min_bin, FALSE)
       /\ (last.op = "fit_loop" /\ last.ret.i - TrailingCols = Len(dc.coef_order)) => ~FitRound]_vars

\* C28 witness: fit has returned after the second of two rounds
C28_TwoRoundsDone ==
    /\ last.op = "fit" /\ last.err = ""
    /\ Len(dc.coef_order) = 2
    /\ X_fit # <<>>
    /\ \E i, j \in 1..Len(X_fit) :
           /\ X_fit[i].group = JoinKey(X_fit[i], dc.coef_order)
           /\ X_fit[j].group = JoinKey(X_fit[j], <<dc.coef_order[1]>>)


---------------------------------------------------------------------------
(* A claim about the entries of the diversion table, checked under SpecCalc *)

\* C29: the table a diversion call returns has, for each target, an entry
\* for every choice column of the prediction table outside the target's own
\* choices, also for a column that no row of the dataset passed chose, and
\* the shares of the target over those columns are the renormalised ones:
\* where they are numbers they add up to 1.
C29_EntryForEveryColumn ==
    last = Returned("diversion") =>
        \A t \in DOMAIN div_shares.shares :
            LET outside == choice_probs.columns \ DivList(cd, t, "None")
            IN  /\ outside \subseteq div_shares.index
                /\ (outside # {} /\ \A x \in outside : ~IsNaNF(div_shares.shares[t][x])) =>
                       SumF(div_shares.shares[t], outside) = OneF

---------------------------------------------------------------------------
(* A claim about the defaults of the constructor, checked under SpecNew *)

\* C30: a DiscreteChoice call with a non-empty list as coef_order and every
\* other argument at its default returns: it raises nothing.
C30_DefaultsConstruct ==
    (/\ last.op = "DiscreteChoice"
     /\ \E co \in {PyList(<<"x1">>)} : last.ret = DiscreteChoiceDefaults(co)) =>
        last.err = ""

====
